---- MODULE Spec2Model ----
(***************************************************************************)
(* A model of the rlox pipeline: Scanner (src/src/scanner.rs), Parser      *)
(* (src/src/parser.rs), tree-walking Interpreter                           *)
(* (src/src/expression/interpreter.rs), AstPrinter and the reporter.       *)
(*                                                                         *)
(* A character is a one-element string; a Rust String is a sequence of     *)
(* characters.  A character may occupy more than one byte (ByteLen), so    *)
(* that the scanner's character-indexed cursor and its byte-indexed        *)
(* slices are distinct notions, as they are in the code.                   *)
(***************************************************************************)
EXTENDS Integers, Sequences, FiniteSets, TLC

VARIABLES
    entry,      \* "source": Scanner::parse is run first; "tokens": Parser::parse is called
                \* directly; "expr": an Expression is evaluated directly; "rescan":
                \* Scanner::parse is called several times
    source,     \* Scanner.source
    scanner,    \* Scanner fields tokens, start, current, line, plus the status of the call
    tokens,     \* Parser.tokens, the Vec<Token> handed to Parser::parse
    parser,     \* the Parser's state (cursor, status) when Parser::parse ended
    ast,        \* the Expression returned by Parser::parse
    result,     \* the RuntimeResult<Value> of expr.accept(&Interpreter)
    reports,    \* the diagnostics printed by reporter::report, in order
    interp,     \* the Interpreter's call stack while expr.accept(&Interpreter) runs
    earlier,    \* an earlier call of Scanner::parse: its source and the tokens it returned
    pc          \* "scan", "parse", "eval", "done", "panicked", "exited"

vars == <<entry, source, scanner, tokens, parser, ast, result, reports, interp, earlier, pc>>

(***************************************************************************)
(* Bounds of the model                                                     *)
(***************************************************************************)
MaxSourceLen == 3
MaxTokens == 4
MaxChainOps == 3
MaxNumber == 2
MaxStrLen == 1
MaxRescanLen == 2
MaxScans == 3

(***************************************************************************)
(* Characters                                                              *)
(***************************************************************************)
NoneChar == "<None>"
EAcute == "U+00E9"
NL == "\n"
QUOTE == "\""

DigitChars == <<"0", "1", "2", "3", "4", "5", "6", "7", "8", "9">>

LowerChars ==
    {"a", "b", "c", "d", "e", "f", "g", "h", "i", "j", "k", "l", "m",
     "n", "o", "p", "q", "r", "s", "t", "u", "v", "w", "x", "y", "z"}

UpperChars ==
    {"A", "B", "C", "D", "E", "F", "G", "H", "I", "J", "K", "L", "M",
     "N", "O", "P", "Q", "R", "S", "T", "U", "V", "W", "X", "Y", "Z"}

\* UTF-8 width of a character: the String is indexed in bytes by slices
ByteLen(c) == IF c = EAcute THEN 2 ELSE 1

is_digit(c) == \E i \in 1..10 : DigitChars[i] = c

is_alpha(c) == c \in UpperChars \/ c \in LowerChars \/ c = "_"

is_alpha_numeric(c) == is_alpha(c) \/ is_digit(c)

\* source.chars().nth(k): the k-th character (0-based), None past the end
NthChar(src, k) == IF k < Len(src) THEN src[k + 1] ELSE NoneChar

RECURSIVE ByteOffset(_, _)
\* the number of bytes the first i characters of src occupy
ByteOffset(src, i) ==
    IF i = 0 THEN 0 ELSE ByteOffset(src, i - 1) + ByteLen(src[i])

IsCharBoundary(src, b) == \E i \in 0..Len(src) : ByteOffset(src, i) = b

\* &src[a..b]: a byte-indexed slice; it panics unless a <= b and both are
\* character boundaries of src (which includes being at most its byte length)
Slice(src, a, b) ==
    IF a <= b /\ IsCharBoundary(src, a) /\ IsCharBoundary(src, b)
    THEN LET i == CHOOSE i \in 0..Len(src) : ByteOffset(src, i) = a
             j == CHOOSE j \in 0..Len(src) : ByteOffset(src, j) = b
         IN [ok |-> TRUE, text |-> SubSeq(src, i + 1, j)]
    ELSE [ok |-> FALSE, text |-> <<>>]

(***************************************************************************)
(* Numbers.  An f64 is modelled as a fraction n/d in lowest terms with     *)
(* d > 0; d = 0 stands for the non-finite values (1/0 infinity, -1/0       *)
(* negative infinity, 0/0 NaN).                                            *)
(***************************************************************************)
Abs(x) == IF x < 0 THEN -x ELSE x

Sign(x) == IF x < 0 THEN -1 ELSE IF x > 0 THEN 1 ELSE 0

RECURSIVE Gcd(_, _)
Gcd(a, b) == IF b = 0 THEN a ELSE Gcd(b, a % b)

Frac(n, d) ==
    IF d = 0 THEN [n |-> Sign(n), d |-> 0]
    ELSE LET g == Gcd(Abs(n), Abs(d))
         IN [n |-> (Sign(d) * n) \div g, d |-> Abs(d) \div g]

RECURSIVE Pow10(_)
Pow10(k) == IF k = 0 THEN 1 ELSE 10 * Pow10(k - 1)

DigitValue(c) == (CHOOSE i \in 1..10 : DigitChars[i] = c) - 1

RECURSIVE DigitsValue(_)
DigitsValue(ds) ==
    IF ds = <<>> THEN 0
    ELSE 10 * DigitsValue(SubSeq(ds, 1, Len(ds) - 1)) + DigitValue(ds[Len(ds)])

\* str::parse::<f64> on text: digits, optionally followed by '.' and digits
ParseF64(text) ==
    LET dots == {i \in 1..Len(text) : text[i] = "."}
        wellformed ==
            /\ text # <<>>
            /\ \A i \in 1..Len(text) : is_digit(text[i]) \/ text[i] = "."
            /\ Cardinality(dots) <= 1
            /\ \E i \in 1..Len(text) : is_digit(text[i])
    IN IF ~wellformed THEN [ok |-> FALSE, num |-> Frac(0, 0)]
       ELSE IF dots = {} THEN [ok |-> TRUE, num |-> Frac(DigitsValue(text), 1)]
       ELSE LET p == CHOOSE i \in dots : TRUE
                whole == SubSeq(text, 1, p - 1)
                fract == SubSeq(text, p + 1, Len(text))
            IN [ok |-> TRUE,
                num |-> Frac(DigitsValue(whole \o fract), Pow10(Len(fract)))]

(***************************************************************************)
(* Tokens (src/src/token.rs)                                               *)
(***************************************************************************)
LiteralNull == [kind |-> "Null"]

LiteralNumber(x) == [kind |-> "Number", num |-> x]

LiteralString(s) == [kind |-> "String", str |-> s]

Token(token_type, lexeme, literal, line) ==
    [token_type |-> token_type, lexeme |-> lexeme, literal |-> literal, line |-> line]

\* the KEYWORDS table: the token type of a reserved word, "Identifier" otherwise
KEYWORDS(text) ==
    CASE text = <<"a", "n", "d">> -> "And"
      [] text = <<"c", "l", "a", "s", "s">> -> "Class"
      [] text = <<"e", "l", "s", "e">> -> "Else"
      [] text = <<"f", "a", "l", "s", "e">> -> "False"
      [] text = <<"f", "o", "r">> -> "For"
      [] text = <<"f", "u", "n">> -> "Fun"
      [] text = <<"i", "f">> -> "If"
      [] text = <<"n", "i", "l">> -> "Nil"
      [] text = <<"o", "r">> -> "Or"
      [] text = <<"p", "r", "i", "n", "t">> -> "Print"
      [] text = <<"r", "e", "t", "u", "r", "n">> -> "Return"
      [] text = <<"s", "u", "p", "e", "r">> -> "Super"
      [] text = <<"t", "h", "i", "s">> -> "This"
      [] text = <<"t", "r", "u", "e">> -> "True"
      [] text = <<"v", "a", "r">> -> "Var"
      [] text = <<"w", "h", "i", "l", "e">> -> "While"
      [] OTHER -> "Identifier"

(***************************************************************************)
(* Reporter (src/src/reporter.rs): report prints one diagnostic and ends   *)
(* the process with status 65.  A message is an opaque string; the        *)
(* location text (wheres) is a sequence of characters, as it embeds a      *)
(* lexeme.                                                                 *)
(***************************************************************************)
Diagnostic(line, wheres, message) ==
    [line |-> line, wheres |-> wheres, message |-> message]

\* report: println!, then process::exit(65)
report(s, line, wheres, message) ==
    [s EXCEPT !.reports = Append(@, Diagnostic(line, wheres, message)),
              !.status = "exited"]

error_at_line(s, line, message) == report(s, line, <<>>, message)

error_at_token(s, token, message) ==
    IF token.token_type = "EOF"
    THEN report(s, token.line, <<" ", "a", "t", " ", "e", "n", "d">>, message)
    ELSE report(s, token.line,
                <<" ", "a", "t", " ", "'">> \o token.lexeme \o <<"'">>, message)

(***************************************************************************)
(* Scanner (src/src/scanner.rs).  A scanner state s has the fields of the  *)
(* struct (tokens, start, current, line; source is the parameter src),     *)
(* the diagnostics printed so far and the status of the running call:      *)
(* "scanning", "returned", "panicked" or "exited".                         *)
(***************************************************************************)
ScannerNew ==
    [tokens |-> <<>>, start |-> 0, current |-> 0, line |-> 1,
     reports |-> <<>>, status |-> "scanning"]

Panic(s) == [s EXCEPT !.status = "panicked"]

peek(src, s) == NthChar(src, s.current)

peek_next(src, s) == NthChar(src, s.current + 1)

\* next_char: the state after the call (the character returned is peek before it)
next_char(s) == [s EXCEPT !.current = @ + 1]

next_char_matches(src, s, c) ==
    LET e == peek(src, s)
    IN IF e = NoneChar \/ e # c
       THEN [hit |-> FALSE, s |-> s]
       ELSE [hit |-> TRUE, s |-> [s EXCEPT !.current = @ + 1]]

add_token(src, s, token_type, literal) ==
    LET text == Slice(src, s.start, s.current)
    IN IF ~text.ok THEN Panic(s)
       ELSE [s EXCEPT !.tokens = Append(@, Token(token_type, text.text, literal, s.line))]

RECURSIVE skip_comment(_, _)
\* while self.peek().is_some() && self.peek() != Some('\n') { self.next_char(); }
skip_comment(src, s) ==
    IF peek(src, s) # NoneChar /\ peek(src, s) # NL
    THEN skip_comment(src, next_char(s))
    ELSE s

RECURSIVE identifier_loop(_, _)
identifier_loop(src, s) ==
    IF peek(src, s) # NoneChar /\ is_alpha_numeric(peek(src, s))
    THEN identifier_loop(src, next_char(s))
    ELSE s

identifier(src, s0) ==
    LET s == identifier_loop(src, s0)
        text == Slice(src, s.start, s.current)
    IN IF ~text.ok THEN Panic(s)
       ELSE add_token(src, s, KEYWORDS(text.text), LiteralNull)

RECURSIVE digits_loop(_, _)
\* while Self::is_digit(self.peek().unwrap()) { self.next_char(); }
digits_loop(src, s) ==
    IF peek(src, s) = NoneChar THEN Panic(s)
    ELSE IF is_digit(peek(src, s)) THEN digits_loop(src, next_char(s))
    ELSE s

number(src, s0) ==
    LET s1 == digits_loop(src, s0)
        s2 == IF /\ s1.status = "scanning"
                 /\ peek(src, s1) = "."
                 /\ peek_next(src, s1) # NoneChar
                 /\ is_digit(peek_next(src, s1))
              THEN digits_loop(src, next_char(s1))
              ELSE s1
        text == Slice(src, s2.start, s2.current)
        val == ParseF64(text.text)
    IN IF s2.status # "scanning" THEN s2
       ELSE IF ~text.ok THEN Panic(s2)
       ELSE IF ~val.ok
            THEN error_at_line(s2, s2.line, "error parsing number")
       ELSE add_token(src, s2, "Number", LiteralNumber(val.num))

RECURSIVE string_loop(_, _)
string_loop(src, s) ==
    IF peek(src, s) # NoneChar /\ peek(src, s) # QUOTE
    THEN string_loop(src, next_char([s EXCEPT !.line = IF peek(src, s) = NL THEN @ + 1 ELSE @]))
    ELSE s

string(src, s0) ==
    LET s1 == string_loop(src, s0)
        s2 == next_char(s1)
        value == Slice(src, s2.start + 1, s2.current - 1)
    IN IF peek(src, s1) = NoneChar
       THEN error_at_line(s1, s1.line, "Unterminated String")
       ELSE IF ~value.ok THEN Panic(s2)
       ELSE add_token(src, s2, "String", LiteralString(value.text))

\* the one- or two-character operators: '!', '=', '<', '>'
scan_bang(src, s) ==
    LET m == next_char_matches(src, s, "=")
    IN IF m.hit THEN add_token(src, m.s, "Bang", LiteralNull)
       ELSE add_token(src, m.s, "BangEqual", LiteralNull)

scan_equal(src, s) ==
    LET m == next_char_matches(src, s, "=")
    IN IF m.hit THEN add_token(src, m.s, "EqualEqual", LiteralNull)
       ELSE add_token(src, m.s, "Equal", LiteralNull)

scan_less(src, s) ==
    LET m == next_char_matches(src, s, "=")
    IN IF m.hit THEN add_token(src, m.s, "LessEqual", LiteralNull)
       ELSE add_token(src, m.s, "Less", LiteralNull)

scan_greater(src, s) ==
    LET m == next_char_matches(src, s, "=")
    IN IF m.hit THEN add_token(src, m.s, "GreaterEqual", LiteralNull)
       ELSE add_token(src, m.s, "Greater", LiteralNull)

scan_slash(src, s) ==
    LET m == next_char_matches(src, s, "/")
    IN IF m.hit THEN skip_comment(src, m.s)
       ELSE add_token(src, m.s, "Slash", LiteralNull)

\* one pass of the loop of scan_tokens; at the end of the source, the push of EOF
scan_token(src, s0) ==
    LET s1 == [s0 EXCEPT !.start = s0.current]
        c == peek(src, s1)
        s == next_char(s1)
    IN IF c = NoneChar
       THEN [s EXCEPT !.tokens = Append(@, Token("EOF", <<>>, LiteralNull, s.line)),
                      !.status = "returned"]
       ELSE CASE c = "(" -> add_token(src, s, "LeftParen", LiteralNull)
              [] c = ")" -> add_token(src, s, "RightParen", LiteralNull)
              [] c = "{" -> add_token(src, s, "LeftBrace", LiteralNull)
              [] c = "}" -> add_token(src, s, "RightBrace", LiteralNull)
              [] c = "," -> add_token(src, s, "Comma", LiteralNull)
              [] c = "." -> add_token(src, s, "Dot", LiteralNull)
              [] c = "-" -> add_token(src, s, "Minus", LiteralNull)
              [] c = "+" -> add_token(src, s, "Plus", LiteralNull)
              [] c = ";" -> add_token(src, s, "Semicolon", LiteralNull)
              [] c = "*" -> add_token(src, s, "Star", LiteralNull)
              [] c = "!" -> scan_bang(src, s)
              [] c = "=" -> scan_equal(src, s)
              [] c = "<" -> scan_less(src, s)
              [] c = ">" -> scan_greater(src, s)
              [] c = "/" -> scan_slash(src, s)
              [] c \in {" ", "\r", "\t"} -> s
              [] c = NL -> [s EXCEPT !.line = @ + 1]
              [] c = QUOTE -> string(src, s)
              [] OTHER -> IF is_digit(c) THEN number(src, s)
                          ELSE IF is_alpha(c) THEN identifier(src, s)
                          ELSE error_at_line(s, s.line, "Unexpected character.")

RECURSIVE scan_tokens(_, _)
\* the whole loop of scan_tokens, from state s
scan_tokens(src, s) ==
    IF s.status # "scanning" THEN s ELSE scan_tokens(src, scan_token(src, s))

\* Scanner::parse: the final scanner state; its tokens are returned when status is "returned"
ScannerParse(src) == scan_tokens(src, ScannerNew)

(***************************************************************************)
(* Expressions (src/src/expression/mod.rs)                                 *)
(***************************************************************************)
ExprNil == [kind |-> "Nil"]

ExprBool(b) == [kind |-> "Bool", b |-> b]

ExprNumber(x) == [kind |-> "Number", num |-> x]

ExprString(s) == [kind |-> "String", str |-> s]

Binary(left, operator, right) ==
    [node |-> "Binary", left |-> left, operator |-> operator, right |-> right]

Literal(value) == [node |-> "Literal", value |-> value]

Grouping(expr) == [node |-> "Grouping", expr |-> expr]

Unary(operator, right) == [node |-> "Unary", operator |-> operator, right |-> right]

NoExpr == [node |-> "None"]

(***************************************************************************)
(* Parser (src/src/parser.rs).  A parser state p has the cursor `current`, *)
(* the diagnostics printed so far and the status of the running call:      *)
(* "parsing", "exited" (reporter ended the process) or "panicked" (an      *)
(* index into tokens out of bounds).  tokens is the parameter toks.        *)
(* visited is the history of the cursor: its first value and its value     *)
(* after each assignment in advance.                                       *)
(***************************************************************************)
ParserNew == [current |-> 0, visited |-> <<0>>, reports |-> <<>>, status |-> "parsing"]

\* whether &self.tokens[current] is inside the vector
p_peek_ok(toks, p) == p.current < Len(toks)

p_peek(toks, p) == toks[p.current + 1]

\* &self.tokens[current - 1]
p_previous(toks, p) == toks[p.current]

p_is_at_end(toks, p) == p_peek(toks, p).token_type = "EOF"

p_check(toks, p, token_type) ==
    IF p_is_at_end(toks, p) THEN FALSE
    ELSE p_peek(toks, p).token_type = token_type

\* advance: the state after the call; the token returned is previous() of it,
\* whose index current - 1 must exist
p_advance(toks, p) ==
    LET q == IF ~p_is_at_end(toks, p)
             THEN [p EXCEPT !.current = @ + 1, !.visited = Append(@, p.current + 1)]
             ELSE p
    IN IF q.current = 0 THEN Panic(q) ELSE q

p_matches(toks, p, types) ==
    IF ~p_peek_ok(toks, p) THEN [hit |-> FALSE, p |-> Panic(p)]
    ELSE IF \E tt \in types : p_check(toks, p, tt)
         THEN [hit |-> TRUE, p |-> p_advance(toks, p)]
         ELSE [hit |-> FALSE, p |-> p]

\* Self::error: error_at_token, then the ParseError value
p_error(toks, p, message) ==
    IF ~p_peek_ok(toks, p) THEN Panic(p)
    ELSE error_at_token(p, p_peek(toks, p), message)

POk(expr, p) == [ok |-> TRUE, expr |-> expr, p |-> p]

PErr(p) == [ok |-> FALSE, expr |-> NoExpr, p |-> p]

\* consume that advances whatever the current token is
p_consume_without_check(toks, p, ty, msg) ==
    POk(NoExpr, [p EXCEPT !.current = @ + 1, !.visited = Append(@, p.current + 1)])

p_consume(toks, p, ty, msg) ==
    IF ~p_peek_ok(toks, p) THEN PErr(Panic(p))
    ELSE IF p_check(toks, p, ty) THEN POk(NoExpr, p_advance(toks, p))
    ELSE PErr(p_error(toks, p, msg))

\* The grammar methods.  Each result of a nested call is handed to a helper
\* (the code after the call: the `?`, then the rest of the method), so that a
\* method's text names each nested call once.
RECURSIVE expression(_, _)
RECURSIVE equality_loop(_, _, _)
RECURSIVE comparison_loop(_, _, _)
RECURSIVE term_loop(_, _, _)
RECURSIVE factor_loop(_, _, _)
RECURSIVE unary(_, _)
RECURSIVE term(_, _)

\* `(` expression `)`: the `?` on the consume, then the Grouping
primary_close(closing, expr) ==
    IF ~closing.ok THEN closing ELSE POk(Grouping(expr), closing.p)

\* `(` expression: the `?` on the expression, then consume(RightParen, ...)
primary_group(toks, inner) ==
    IF ~inner.ok THEN inner
    ELSE primary_close(p_consume(toks, inner.p, "RightParen", "Expect ')' after expression."),
                       inner.expr)

\* primary once the kind of the current token is known: tt is the first of
\* False, True, Nil, Number, String, LeftParen that matches() accepted and q the
\* parser state after it, or tt is "none" and q = p
primary_of(toks, p, tt, q) ==
    CASE tt = "False" -> POk(Literal(ExprBool(FALSE)), q)
      [] tt = "True" -> POk(Literal(ExprBool(TRUE)), q)
      [] tt = "Nil" -> POk(Literal(ExprNil), q)
      [] tt = "Number" ->
            IF p_previous(toks, q).literal.kind = "Number"
            THEN POk(Literal(ExprNumber(p_previous(toks, q).literal.num)), q)
            ELSE PErr(p_error(toks, q, "error parsing Number"))
      [] tt = "String" ->
            IF p_previous(toks, q).literal.kind = "String"
            THEN POk(Literal(ExprString(p_previous(toks, q).literal.str)), q)
            ELSE PErr(p_error(toks, q, "error parsing Strings"))
      [] tt = "LeftParen" -> primary_group(toks, expression(toks, q))
      [] OTHER -> PErr(p_error(toks, p, "unexpected token"))

PrimaryStarts == <<"False", "True", "Nil", "Number", "String", "LeftParen">>

primary(toks, p) ==
    IF ~p_peek_ok(toks, p) THEN PErr(Panic(p))
    ELSE LET hits == {i \in 1..Len(PrimaryStarts) : p_matches(toks, p, {PrimaryStarts[i]}).hit}
         IN IF hits = {} THEN primary_of(toks, p, "none", p)
            ELSE LET first == CHOOSE i \in hits : \A j \in hits : i <= j
                 IN primary_of(toks, p, PrimaryStarts[first],
                               p_matches(toks, p, {PrimaryStarts[first]}).p)

\* unary after its operand: the `?`, then the Unary node
unary_wrap(op, right) ==
    IF ~right.ok THEN right ELSE POk(Unary(op, right.expr), right.p)

unary_of(toks, p, m) ==
    IF m.p.status # "parsing" THEN PErr(m.p)
    ELSE IF m.hit THEN unary_wrap(p_previous(toks, m.p), unary(toks, m.p))
    ELSE primary(toks, p)

\* unary with `+` accepted as a prefix operator too
unary_accepting_plus(toks, p) == unary_of(toks, p, p_matches(toks, p, {"Bang", "Minus", "Plus"}))

unary(toks, p) == unary_of(toks, p, p_matches(toks, p, {"Bang", "Minus"}))

\* the body of factor's loop after the right operand: the `?`, then the fold
factor_fold(toks, expr, operator, right) ==
    IF ~right.ok THEN right
    ELSE factor_loop(toks, Binary(expr, operator, right.expr), right.p)

\* factor's loop with its right operand parsed one level too loose (by term):
\* what the loop would be had the levels been chained wrongly
factor_step_operand_by_term(toks, expr, p, m) ==
    IF m.p.status # "parsing" THEN PErr(m.p)
    ELSE IF ~m.hit THEN POk(expr, p)
    ELSE factor_fold(toks, expr, p_previous(toks, m.p), term(toks, m.p))

factor_step(toks, expr, p, m) ==
    IF m.p.status # "parsing" THEN PErr(m.p)
    ELSE IF ~m.hit THEN POk(expr, p)
    ELSE factor_fold(toks, expr, p_previous(toks, m.p), unary(toks, m.p))

factor_loop(toks, expr, p) ==
    factor_step(toks, expr, p, p_matches(toks, p, {"Slash", "Star"}))

factor_first(toks, first) ==
    IF ~first.ok THEN first ELSE factor_loop(toks, first.expr, first.p)

factor(toks, p) == factor_first(toks, unary(toks, p))

term_fold(toks, expr, operator, right) ==
    IF ~right.ok THEN right
    ELSE term_loop(toks, Binary(expr, operator, right.expr), right.p)

\* term's loop with its right operand parsed by term itself (right recursion):
\* what the loop would be were the level right-associative
term_step_right_recursive(toks, expr, p, m) ==
    IF m.p.status # "parsing" THEN PErr(m.p)
    ELSE IF ~m.hit THEN POk(expr, p)
    ELSE term_fold(toks, expr, p_previous(toks, m.p), term(toks, m.p))

term_step(toks, expr, p, m) ==
    IF m.p.status # "parsing" THEN PErr(m.p)
    ELSE IF ~m.hit THEN POk(expr, p)
    ELSE term_fold(toks, expr, p_previous(toks, m.p), factor(toks, m.p))

term_loop(toks, expr, p) ==
    term_step(toks, expr, p, p_matches(toks, p, {"Minus", "Plus"}))

term_first(toks, first) ==
    IF ~first.ok THEN first ELSE term_loop(toks, first.expr, first.p)

term(toks, p) == term_first(toks, factor(toks, p))

comparison_fold(toks, expr, operator, right) ==
    IF ~right.ok THEN right
    ELSE comparison_loop(toks, Binary(expr, operator, right.expr), right.p)

comparison_step(toks, expr, p, m) ==
    IF m.p.status # "parsing" THEN PErr(m.p)
    ELSE IF ~m.hit THEN POk(expr, p)
    ELSE comparison_fold(toks, expr, p_previous(toks, m.p), term(toks, m.p))

comparison_loop(toks, expr, p) ==
    comparison_step(toks, expr, p,
                    p_matches(toks, p, {"Greater", "GreaterEqual", "Less", "LessEqual"}))

comparison_first(toks, first) ==
    IF ~first.ok THEN first ELSE comparison_loop(toks, first.expr, first.p)

comparison(toks, p) == comparison_first(toks, term(toks, p))

equality_fold(toks, expr, token_operator, right) ==
    IF ~right.ok THEN right
    ELSE equality_loop(toks, Binary(expr, token_operator, right.expr), right.p)

equality_step(toks, expr, p, m) ==
    IF m.p.status # "parsing" THEN PErr(m.p)
    ELSE IF ~m.hit THEN POk(expr, p)
    ELSE equality_fold(toks, expr, p_previous(toks, m.p), comparison(toks, m.p))

equality_loop(toks, expr, p) ==
    equality_step(toks, expr, p, p_matches(toks, p, {"BangEqual", "EqualEqual"}))

equality_first(toks, first) ==
    IF ~first.ok THEN first ELSE equality_loop(toks, first.expr, first.p)

equality(toks, p) == equality_first(toks, comparison(toks, p))

expression(toks, p) == equality(toks, p)

\* parse_tokens: self.expression().unwrap_or(Literal { value: Nil }); p is the
\* parser state at the end of the call
parse_tokens_of(r) ==
    [expr |-> IF r.ok THEN r.expr ELSE Literal(ExprNil), p |-> r.p]

\* parse_tokens with the end of the tokens required after the expression:
\* a token left over is reported as an error
parse_tokens_expecting_end(toks) ==
    LET r == expression(toks, ParserNew)
    IN IF r.ok /\ ~p_is_at_end(toks, r.p)
       THEN parse_tokens_of(PErr(p_error(toks, r.p, "Expect end of expression.")))
       ELSE parse_tokens_of(r)

parse_tokens(toks) == parse_tokens_of(expression(toks, ParserNew))

\* Parser::parse
ParserParse(toks) == parse_tokens(toks)

(***************************************************************************)
(* f64 arithmetic, comparison and Display on the fraction model.  Finite   *)
(* results are exact (rounding to 53 bits is not modelled); the IEEE       *)
(* rules for infinities and NaN are followed.                              *)
(***************************************************************************)
IsNaN(x) == x.d = 0 /\ x.n = 0

IsInf(x) == x.d = 0 /\ x.n # 0

NaN == [n |-> 0, d |-> 0]

FNeg(x) == [n |-> 0 - x.n, d |-> x.d]

FAdd(x, y) ==
    IF IsNaN(x) \/ IsNaN(y) THEN NaN
    ELSE IF IsInf(x) /\ IsInf(y) THEN (IF x.n = y.n THEN x ELSE NaN)
    ELSE IF IsInf(x) THEN x
    ELSE IF IsInf(y) THEN y
    ELSE Frac(x.n * y.d + y.n * x.d, x.d * y.d)

FSub(x, y) == FAdd(x, FNeg(y))

FMul(x, y) ==
    IF IsNaN(x) \/ IsNaN(y) THEN NaN
    ELSE IF IsInf(x) \/ IsInf(y) THEN Frac(Sign(x.n) * Sign(y.n), 0)
    ELSE Frac(x.n * y.n, x.d * y.d)

FDiv(x, y) ==
    IF IsNaN(x) \/ IsNaN(y) THEN NaN
    ELSE IF IsInf(x) /\ IsInf(y) THEN NaN
    ELSE IF IsInf(x) THEN Frac(x.n * (IF y.n < 0 THEN -1 ELSE 1), 0)
    ELSE IF IsInf(y) THEN Frac(0, 1)
    ELSE Frac(x.n * y.d, x.d * y.n)

FEq(x, y) == ~IsNaN(x) /\ ~IsNaN(y) /\ x = y

FLt(x, y) ==
    /\ ~IsNaN(x)
    /\ ~IsNaN(y)
    /\ IF IsInf(x) THEN x.n < 0 /\ y # x
       ELSE IF IsInf(y) THEN y.n > 0
       ELSE x.n * y.d < y.n * x.d

FGt(x, y) == FLt(y, x)

FLe(x, y) == FLt(x, y) \/ FEq(x, y)

FGe(x, y) == FLt(y, x) \/ FEq(x, y)

RECURSIVE NatToString(_)
NatToString(k) ==
    IF k < 10 THEN <<DigitChars[k + 1]>>
    ELSE NatToString(k \div 10) \o <<DigitChars[(k % 10) + 1]>>

RECURSIVE FractionDigits(_, _, _)
\* the decimal digits of r/d (0 <= r < d), at most k of them
FractionDigits(r, d, k) ==
    IF r = 0 \/ k = 0 THEN <<>>
    ELSE <<DigitChars[((r * 10) \div d) + 1]>> \o FractionDigits((r * 10) % d, d, k - 1)

\* f64's Display (to_string): no ".0" on integral values, the decimal digits otherwise
F64ToString(x) ==
    IF IsNaN(x) THEN <<"N", "a", "N">>
    ELSE IF IsInf(x) THEN (IF x.n < 0 THEN <<"-", "i", "n", "f">> ELSE <<"i", "n", "f">>)
    ELSE LET a == Abs(x.n)
             whole == NatToString(a \div x.d)
             fract == FractionDigits(a % x.d, x.d, 17)
         IN (IF x.n < 0 THEN <<"-">> ELSE <<>>) \o whole
            \o (IF fract = <<>> THEN <<>> ELSE <<".">> \o fract)

(***************************************************************************)
(* Runtime values and the operators on them                                *)
(* (src/src/expression/interpreter.rs)                                     *)
(***************************************************************************)
ValueStr(s) == [kind |-> "Str", str |-> s]

ValueNumber(x) == [kind |-> "Number", num |-> x]

ValueNil == [kind |-> "Nil"]

ValueBool(b) == [kind |-> "Bool", b |-> b]

\* RuntimeResult<Value>: Ok(value), Err(RuntimeError { msg }); unreachable!() is a panic
RtOk(v) == [ok |-> TRUE, value |-> v, msg |-> "", panic |-> FALSE]

RtErr(msg) == [ok |-> FALSE, value |-> ValueNil, msg |-> msg, panic |-> FALSE]

RtUnreachable == [ok |-> FALSE, value |-> ValueNil, msg |-> "unreachable", panic |-> TRUE]

NoResult == [ok |-> FALSE, value |-> ValueNil, msg |-> "not evaluated", panic |-> FALSE]

\* the coercion helper; no operator calls it
try_into_number(v) ==
    CASE v.kind = "Str" ->
            IF ParseF64(v.str).ok THEN [ok |-> TRUE, num |-> ParseF64(v.str).num, msg |-> ""]
            ELSE [ok |-> FALSE, num |-> NaN, msg |-> "Error parsing numbers"]
      [] v.kind = "Number" -> [ok |-> TRUE, num |-> v.num, msg |-> ""]
      [] v.kind = "Bool" -> [ok |-> TRUE, num |-> IF v.b THEN Frac(1, 1) ELSE Frac(0, 1), msg |-> ""]
      [] v.kind = "Nil" -> [ok |-> TRUE, num |-> Frac(0, 1), msg |-> ""]

\* negative with its operand passed through the coercion helper first
negative_coercing(v) ==
    IF try_into_number(v).ok THEN RtOk(ValueNumber(FNeg(try_into_number(v).num)))
    ELSE RtErr("Cannot apply negative operand on non-numeric values")

negative(v) ==
    IF v.kind = "Number" THEN RtOk(ValueNumber(FNeg(v.num)))
    ELSE RtErr("Cannot apply negative operand on non-numeric values")

\* into_bool with the empty string taken for false as well
into_bool_empty_text_false(v) ==
    IF \/ (v.kind = "Bool" /\ v.b = FALSE)
       \/ v.kind = "Nil"
       \/ (v.kind = "Number" /\ FEq(v.num, Frac(0, 1)))
       \/ (v.kind = "Str" /\ v.str = <<>>)
    THEN FALSE
    ELSE TRUE

into_bool(v) ==
    IF \/ (v.kind = "Bool" /\ v.b = FALSE)
       \/ v.kind = "Nil"
       \/ (v.kind = "Number" /\ FEq(v.num, Frac(0, 1)))
    THEN FALSE
    ELSE TRUE

ops_not(v) == RtOk(ValueBool(~into_bool(v)))

into_string(v) ==
    CASE v.kind = "Str" -> v.str
      [] v.kind = "Number" -> F64ToString(v.num)
      [] v.kind = "Nil" -> <<>>
      [] v.kind = "Bool" -> IF v.b THEN <<"t", "r", "u", "e">> ELSE <<"f", "a", "l", "s", "e">>

BothNumbers(v, w) == v.kind = "Number" /\ w.kind = "Number"

\* add with the promoted number put after the text whichever side it was on
add_number_after_text(v, w) ==
    CASE v.kind = "Str" /\ w.kind = "Str" -> RtOk(ValueStr(v.str \o w.str))
      [] v.kind = "Number" /\ w.kind = "Number" -> RtOk(ValueNumber(FAdd(v.num, w.num)))
      [] v.kind = "Str" /\ w.kind = "Number" -> RtOk(ValueStr(v.str \o F64ToString(w.num)))
      [] v.kind = "Number" /\ w.kind = "Str" -> RtOk(ValueStr(w.str \o F64ToString(v.num)))
      [] OTHER -> RtErr("Cannot apply addition operand on non-numeric values")

add(v, w) ==
    CASE v.kind = "Str" /\ w.kind = "Str" -> RtOk(ValueStr(v.str \o w.str))
      [] v.kind = "Number" /\ w.kind = "Number" -> RtOk(ValueNumber(FAdd(v.num, w.num)))
      [] v.kind = "Str" /\ w.kind = "Number" -> RtOk(ValueStr(v.str \o F64ToString(w.num)))
      [] v.kind = "Number" /\ w.kind = "Str" -> RtOk(ValueStr(F64ToString(v.num) \o w.str))
      [] OTHER -> RtErr("Cannot apply addition operand on non-numeric values")

sub(v, w) ==
    IF BothNumbers(v, w) THEN RtOk(ValueNumber(FSub(v.num, w.num)))
    ELSE RtErr("Cannot apply subtraction operand on non-numeric values")

mul(v, w) ==
    IF BothNumbers(v, w) THEN RtOk(ValueNumber(FMul(v.num, w.num)))
    ELSE RtErr("Cannot apply multiplication operand on non-numeric values")

\* div with a guard against a zero divisor
div_zero_divisor_rejected(v, w) ==
    IF BothNumbers(v, w) /\ ~FEq(w.num, Frac(0, 1)) THEN RtOk(ValueNumber(FDiv(v.num, w.num)))
    ELSE RtErr("Cannot apply division operand on non-numeric values")

div(v, w) ==
    IF BothNumbers(v, w) THEN RtOk(ValueNumber(FDiv(v.num, w.num)))
    ELSE RtErr("Cannot apply division operand on non-numeric values")

gt(v, w) ==
    IF BothNumbers(v, w) THEN RtOk(ValueBool(FGt(v.num, w.num)))
    ELSE RtErr("Cannot apply greater than operand on non-numeric values")

gte(v, w) ==
    IF BothNumbers(v, w) THEN RtOk(ValueBool(FGe(v.num, w.num)))
    ELSE RtErr("Cannot apply greater than or equal operand on non-numeric values")

lt(v, w) ==
    IF BothNumbers(v, w) THEN RtOk(ValueBool(FLt(v.num, w.num)))
    ELSE RtErr("Cannot apply less than operand on non-numeric values")

lte(v, w) ==
    IF BothNumbers(v, w) THEN RtOk(ValueBool(FLe(v.num, w.num)))
    ELSE RtErr("Cannot apply less than or equal operand on non-numeric values")

eq(v, w) ==
    CASE v.kind = "Number" /\ w.kind = "Number" -> RtOk(ValueBool(FEq(v.num, w.num)))
      [] v.kind = "Str" /\ w.kind = "Str" -> RtOk(ValueBool(v.str = w.str))
      [] v.kind = "Bool" /\ w.kind = "Bool" -> RtOk(ValueBool(v.b = w.b))
      [] v.kind = "Nil" /\ w.kind = "Nil" -> RtOk(ValueBool(TRUE))
      [] OTHER -> RtOk(ValueBool(FALSE))

\* neq with a pair of values of different kinds taken for a type error
neq_mixed_kinds_rejected(v, w) ==
    CASE v.kind = "Number" /\ w.kind = "Number" -> RtOk(ValueBool(~FEq(v.num, w.num)))
      [] v.kind = "Str" /\ w.kind = "Str" -> RtOk(ValueBool(v.str # w.str))
      [] v.kind = "Bool" /\ w.kind = "Bool" -> RtOk(ValueBool(v.b # w.b))
      [] v.kind = "Nil" /\ w.kind = "Nil" -> RtOk(ValueBool(FALSE))
      [] OTHER -> RtErr("Cannot compare values of different types")

neq(v, w) ==
    CASE v.kind = "Number" /\ w.kind = "Number" -> RtOk(ValueBool(~FEq(v.num, w.num)))
      [] v.kind = "Str" /\ w.kind = "Str" -> RtOk(ValueBool(v.str # w.str))
      [] v.kind = "Bool" /\ w.kind = "Bool" -> RtOk(ValueBool(v.b # w.b))
      [] v.kind = "Nil" /\ w.kind = "Nil" -> RtOk(ValueBool(FALSE))
      [] OTHER -> RtOk(ValueBool(TRUE))

(***************************************************************************)
(* Interpreter: the visitor over the AST                                   *)
(***************************************************************************)
RECURSIVE evaluate(_)

visit_binary(left, operator, right) ==
    LET left_val == evaluate(left)
        right_val == evaluate(right)
        tt == operator.token_type
    IN IF ~left_val.ok THEN left_val
       ELSE IF ~right_val.ok THEN right_val
       ELSE CASE tt = "Minus" -> sub(left_val.value, right_val.value)
              [] tt = "Plus" -> add(left_val.value, right_val.value)
              [] tt = "Slash" -> div(left_val.value, right_val.value)
              [] tt = "Star" -> mul(left_val.value, right_val.value)
              [] tt = "Greater" -> gt(left_val.value, right_val.value)
              [] tt = "GreaterEqual" -> gte(left_val.value, right_val.value)
              [] tt = "Less" -> lt(left_val.value, right_val.value)
              [] tt = "LessEqual" -> lte(left_val.value, right_val.value)
              [] tt = "BangEqual" -> neq(left_val.value, right_val.value)
              [] tt = "EqualEqual" -> eq(left_val.value, right_val.value)
              [] OTHER -> RtUnreachable

visit_literal(value) ==
    CASE value.kind = "String" -> RtOk(ValueStr(value.str))
      [] value.kind = "Number" -> RtOk(ValueNumber(value.num))
      [] value.kind = "Nil" -> RtOk(ValueNil)
      [] value.kind = "Bool" -> RtOk(ValueBool(value.b))

visit_grouping(expr) == evaluate(expr)

visit_unary(operator, right) ==
    LET right_val == evaluate(right)
    IN IF ~right_val.ok THEN right_val
       ELSE CASE operator.token_type = "Minus" -> negative(right_val.value)
              [] operator.token_type = "Bang" -> ops_not(right_val.value)
              [] OTHER -> RtUnreachable

\* Expression::accept with the Interpreter visitor
evaluate(expr) ==
    CASE expr.node = "Binary" -> visit_binary(expr.left, expr.operator, expr.right)
      [] expr.node = "Literal" -> visit_literal(expr.value)
      [] expr.node = "Grouping" -> visit_grouping(expr.expr)
      [] expr.node = "Unary" -> visit_unary(expr.operator, expr.right)

(***************************************************************************)
(* The same visitor, one call or one return at a time.  The Interpreter's  *)
(* call stack has one frame per visit_* call in progress: the node, its    *)
(* path from the root, how far the method has got (stage) and, in          *)
(* visit_binary, the result of the left operand.  `returned` is the        *)
(* RuntimeResult travelling from a finished call to its caller.  log is    *)
(* the history of the run: "enter" when a node is accepted, "apply" when   *)
(* a Value method is called on evaluated operands, "leave" when the visit  *)
(* of a node returns.                                                      *)
(***************************************************************************)
InterpIdle == [stack |-> <<>>, returning |-> FALSE, returned |-> NoResult, log |-> <<>>]

Frame(expr, path) == [expr |-> expr, path |-> path, stage |-> "enter", left_res |-> NoResult]

\* expr.accept(&Interpreter) is about to run
InterpNew(expr) == [InterpIdle EXCEPT !.stack = <<Frame(expr, <<>>)>>]

Event(ev, path, op, args, res) == [ev |-> ev, path |-> path, op |-> op, args |-> args, res |-> res]

\* the match on operator.token_type() of visit_binary
binary_op(tt, left_val, right_val) ==
    CASE tt = "Minus" -> sub(left_val, right_val)
      [] tt = "Plus" -> add(left_val, right_val)
      [] tt = "Slash" -> div(left_val, right_val)
      [] tt = "Star" -> mul(left_val, right_val)
      [] tt = "Greater" -> gt(left_val, right_val)
      [] tt = "GreaterEqual" -> gte(left_val, right_val)
      [] tt = "Less" -> lt(left_val, right_val)
      [] tt = "LessEqual" -> lte(left_val, right_val)
      [] tt = "BangEqual" -> neq(left_val, right_val)
      [] tt = "EqualEqual" -> eq(left_val, right_val)
      [] OTHER -> RtUnreachable

\* the match on operator.token_type() of visit_unary
unary_op(tt, right_val) ==
    CASE tt = "Minus" -> negative(right_val)
      [] tt = "Bang" -> ops_not(right_val)
      [] OTHER -> RtUnreachable

InterpTop(i) == i.stack[Len(i.stack)]

\* the innermost call returns r to its caller
interp_return(i, events, r) ==
    [i EXCEPT !.stack = SubSeq(@, 1, Len(@) - 1),
              !.returning = TRUE,
              !.returned = r,
              !.log = @ \o events \o <<Event("leave", InterpTop(i).path, "", <<>>, r)>>]

\* the innermost call calls self.evaluate(child) and waits at `stage`
interp_call(i, stage, res, child, step) ==
    [i EXCEPT !.stack = [@ EXCEPT ![Len(@)].stage = stage, ![Len(@)].left_res = res]
                        \o <<Frame(child, InterpTop(i).path \o <<step>>)>>,
              !.returning = FALSE]

\* Expression::accept on the node of the innermost frame: visit_literal
\* returns at once, the other visit_* methods start with self.evaluate(child)
accept(i) ==
    LET f == InterpTop(i)
        j == [i EXCEPT !.log = Append(@, Event("enter", f.path, "", <<>>, NoResult))]
    IN CASE f.expr.node = "Literal" -> interp_return(j, <<>>, visit_literal(f.expr.value))
         [] f.expr.node = "Grouping" -> interp_call(j, "inner", NoResult, f.expr.expr, "expr")
         [] f.expr.node = "Unary" -> interp_call(j, "right", NoResult, f.expr.right, "right")
         [] f.expr.node = "Binary" -> interp_call(j, "left", NoResult, f.expr.left, "left")

\* visit_binary after self.evaluate(left) returned r with the right operand
\* evaluated whatever r is: the `?` on the left result delayed until both
\* operands are evaluated
binary_left_returned_question_mark_delayed(i, r) ==
    interp_call(i, "right", r, InterpTop(i).expr.right, "right")

\* visit_binary after self.evaluate(left) returned r: the `?`, then
\* self.evaluate(right)
binary_left_returned(i, r) ==
    IF ~r.ok THEN interp_return(i, <<>>, r)
    ELSE interp_call(i, "right", r, InterpTop(i).expr.right, "right")

\* visit_binary after self.evaluate(right) returned r: the `?`, then the match
binary_right_returned(i, r) ==
    LET f == InterpTop(i)
        tt == f.expr.operator.token_type
        res == binary_op(tt, f.left_res.value, r.value)
    IN IF ~r.ok THEN interp_return(i, <<>>, r)
       ELSE interp_return(i, <<Event("apply", f.path, tt, <<f.left_res.value, r.value>>, res)>>,
                          res)

\* visit_unary after self.evaluate(right) returned r: the `?`, then the match
unary_right_returned(i, r) ==
    LET f == InterpTop(i)
        tt == f.expr.operator.token_type
        res == unary_op(tt, r.value)
    IN IF ~r.ok THEN interp_return(i, <<>>, r)
       ELSE interp_return(i, <<Event("apply", f.path, tt, <<r.value>>, res)>>, res)

\* the caller goes on after the call it waited for has returned
resume(i) ==
    LET f == InterpTop(i)
    IN CASE f.stage = "inner" -> interp_return(i, <<>>, i.returned)
         [] f.stage = "left" -> binary_left_returned(i, i.returned)
         [] f.stage = "right" /\ f.expr.node = "Binary" -> binary_right_returned(i, i.returned)
         [] f.stage = "right" /\ f.expr.node = "Unary" -> unary_right_returned(i, i.returned)

(***************************************************************************)
(* AstPrinter (src/src/expression/ast_printer.rs)                          *)
(***************************************************************************)
\* Display for ExprLiteral
ExprLiteralToString(value) ==
    CASE value.kind = "String" -> value.str
      [] value.kind = "Number" -> F64ToString(value.num)
      [] value.kind = "Nil" -> <<"n", "i", "l">>
      [] value.kind = "Bool" -> IF value.b THEN <<"t", "r", "u", "e">>
                                ELSE <<"f", "a", "l", "s", "e">>

RECURSIVE AstPrinter(_)
\* Expression::accept with the AstPrinter visitor
AstPrinter(expr) ==
    CASE expr.node = "Binary" ->
            <<"(">> \o expr.operator.lexeme \o <<" ">> \o AstPrinter(expr.left)
                \o <<" ">> \o AstPrinter(expr.right) \o <<")">>
      [] expr.node = "Literal" -> ExprLiteralToString(expr.value)
      [] expr.node = "Grouping" ->
            <<"(", "g", "r", "o", "u", "p", " ">> \o AstPrinter(expr.expr) \o <<")">>
      [] expr.node = "Unary" ->
            <<"(">> \o expr.operator.lexeme \o <<" ">> \o AstPrinter(expr.right) \o <<")">>

(***************************************************************************)
(* Inputs                                                                  *)
(***************************************************************************)
\* all sequences over S of length at most n
SeqsUpTo(S, n) == UNION {[1..k -> S] : k \in 0..n}

SourceAlphabet ==
    {"1", "!", "=", "<", ">", "@", QUOTE, EAcute, NL, "/", "+", "a", "."}

\* the sources of the repository's tests and of the documented examples
ExampleSources ==
    { <<"1", " ", "+", " ", "1", ";">>,
      <<"1", " ", "+", " ", "1", " ", "*", " ", "2", " ", "-", " ", "3", ";">>,
      <<"1", " ", "+", " ", "1", " ", "*", " ", "2", " ", "-", " ", "3", " ", "/", " ", "4", ";">>,
      <<"1", " ", "+", " ", "1", " ", "*", " ", "2", " ", "-", " ", "3", " ", "/", " ", "4",
        " ", "<", "=", " ", "5", ";">>,
      <<"2", " ", "+", " ", "2", ";">>,
      <<"3", ".", "1", "4", " ", "*", " ", "(", "2", " ", "+", " ", "2", ")", ";">>,
      <<"3", ".", "1", "4", " ", "*", " ", "2", " ", "+", " ", "2", ";">>,
      <<"3", ".", "1", "4", " ", "*", " ", "(", "2", " ", "+", " ", "2", ")">>,
      <<"1", "2", "3", " ", "+", " ", QUOTE, "1", "2", "3", QUOTE>>,
      <<"1", "2", "3", " ", "+", " ", QUOTE, "1", "2", "3", QUOTE, " ", "=", "=", " ",
        QUOTE, "1", "2", "3", "1", "2", "3", QUOTE, ";">>,
      <<"1", "2", "3", " ", "+", " ", QUOTE, "1", "2", "3", QUOTE, " ", "!", "=", " ",
        QUOTE, "1", "2", "3", "1", "2", "3", QUOTE, ";">>,
      <<"1", "2", "3", " ", "+", " ", QUOTE, "1", "2", "3", QUOTE, " ", "=", "=", " ",
        "1", "2", "3", "1", "2", "3", " ", "+", " ", "1", ";">>,
      <<"!", "0">>, <<"!", "1">>, <<"!", "n", "i", "l">>,
      <<"!", "0", ";">>, <<"!", "1", ";">>, <<"!", "n", "i", "l", ";">>,
      <<"!", "t", "r", "u", "e">>, <<"!", "f", "a", "l", "s", "e">>,
      <<"!", QUOTE, QUOTE>>, <<"!", QUOTE, "a", QUOTE>>,
      <<"1", "!", "=", "1", ";">>, <<"1", "=", "=", "1", ";">>,
      <<"1", "!", "=", "2", ";">>, <<"1", "=", "=", "2", ";">>,
      <<"n", "i", "l", "!", "=", "n", "i", "l">>, <<"n", "i", "l", "=", "=", "n", "i", "l">>,
      <<"-", QUOTE, "a", QUOTE>>,
      <<"(", "1", " ", "+", " ", "2">>, <<"(", "1", " ", "+", " ", "2", " ">>,
      <<"v", "a", "r", " ", "i", " ", "=", " ", "1", ";", " ", "/", "/", " ", "c", NL,
        "p", "r", "i", "n", "t", " ", "i", ";", NL>>,
      <<"/", "/", EAcute, NL, "+">>,
      <<QUOTE, EAcute, "a", QUOTE>>, <<QUOTE, "a", QUOTE>>, <<QUOTE, QUOTE, " ", "1", ".", "5", ";">>,
      <<QUOTE, "a", NL, "b", QUOTE, " ", "+", NL, "1", ";">> }

Sources == SeqsUpTo(SourceAlphabet, MaxSourceLen) \cup ExampleSources

\* a token as Scanner would emit it on line 1, for direct calls of Parser::parse
Tok(token_type, lexeme) == Token(token_type, lexeme, LiteralNull, 1)

NumberTok(k) == Token("Number", NatToString(k), LiteralNumber(Frac(k, 1)), 1)

EOFTok == Tok("EOF", <<>>)

BinaryOperatorTokens ==
    { Tok("BangEqual", <<"!", "=">>), Tok("EqualEqual", <<"=", "=">>),
      Tok("Greater", <<">">>), Tok("GreaterEqual", <<">", "=">>),
      Tok("Less", <<"<">>), Tok("LessEqual", <<"<", "=">>),
      Tok("Minus", <<"-">>), Tok("Plus", <<"+">>),
      Tok("Slash", <<"/">>), Tok("Star", <<"*">>) }

TokenAlphabet ==
    { NumberTok(1), Tok("Nil", <<"n", "i", "l">>),
      Tok("Plus", <<"+">>), Tok("Star", <<"*">>), Tok("EqualEqual", <<"=", "=">>),
      Tok("Bang", <<"!">>), Tok("Minus", <<"-">>),
      Tok("LeftParen", <<"(">>), Tok("RightParen", <<")">>),
      Tok("Semicolon", <<";">>) }

\* operand 1, op[1], operand 2, ..., op[k], operand k+1, EOF
ChainOf(ops) ==
    [i \in 1..(2 * Len(ops) + 2) |->
        IF i = 2 * Len(ops) + 2 THEN EOFTok
        ELSE IF i % 2 = 1 THEN NumberTok((i + 1) \div 2)
        ELSE ops[i \div 2]]

ChainTokens == {ChainOf(ops) : ops \in SeqsUpTo(BinaryOperatorTokens, MaxChainOps)}

BoundedTokens == {ts \o <<EOFTok>> : ts \in SeqsUpTo(TokenAlphabet, MaxTokens)}

\* the tokens of `3.14 * 2 + 2` and of `3.14 * (2 + 2)`
ExampleTokens ==
    LET pi == Token("Number", <<"3", ".", "1", "4">>, LiteralNumber(Frac(314, 100)), 1)
    IN { <<pi, Tok("Star", <<"*">>), NumberTok(2), Tok("Plus", <<"+">>), NumberTok(2), EOFTok>>,
         <<pi, Tok("Star", <<"*">>), Tok("LeftParen", <<"(">>), NumberTok(2),
           Tok("Plus", <<"+">>), NumberTok(2), Tok("RightParen", <<")">>), EOFTok>> }

\* token vectors with an EOF token before the last one
TokensWithInnerEOF ==
    { <<NumberTok(1), EOFTok, Tok("Plus", <<"+">>), NumberTok(1), EOFTok>>,
      <<NumberTok(1), Tok("Plus", <<"+">>), EOFTok, NumberTok(1), EOFTok>>,
      <<Tok("LeftParen", <<"(">>), NumberTok(1), EOFTok, Tok("RightParen", <<")">>), EOFTok>>,
      <<EOFTok, NumberTok(1), EOFTok>> }

TokenInputs == BoundedTokens \cup ChainTokens \cup ExampleTokens \cup TokensWithInnerEOF

\* Expressions handed to the Interpreter directly: the literals, and a node
\* of each kind over operands that are literals or small expressions whose
\* values no literal has (NaN, the infinities, a negative number, runtime errors)
NumbersIn == {Frac(k, 1) : k \in 0..MaxNumber} \cup {Frac(1, 2)}

StringsIn == SeqsUpTo({"a", "1"}, MaxStrLen)

LiteralExprs ==
    {Literal(ExprString(s)) : s \in StringsIn}
        \cup {Literal(ExprNumber(x)) : x \in NumbersIn}
        \cup {Literal(ExprBool(b)) : b \in BOOLEAN}
        \cup {Literal(ExprNil)}

NumExpr(k) == Literal(ExprNumber(Frac(k, 1)))

StrExpr(s) == Literal(ExprString(s))

CompoundOperands ==
    { Binary(NumExpr(0), Tok("Slash", <<"/">>), NumExpr(0)),
      Binary(NumExpr(1), Tok("Slash", <<"/">>), NumExpr(0)),
      Unary(Tok("Minus", <<"-">>), NumExpr(1)),
      Unary(Tok("Minus", <<"-">>), StrExpr(<<"a">>)),
      Unary(Tok("Bang", <<"!">>), Literal(ExprNil)),
      Binary(Literal(ExprNil), Tok("Plus", <<"+">>), NumExpr(1)),
      Binary(StrExpr(<<"a">>), Tok("Plus", <<"+">>), NumExpr(1)),
      Grouping(Binary(NumExpr(1), Tok("Star", <<"*">>), Literal(ExprBool(TRUE)))),
      Grouping(NumExpr(1)) }

Operands == LiteralExprs \cup CompoundOperands

UnaryOperatorTokens == {Tok("Bang", <<"!">>), Tok("Minus", <<"-">>)}

Exprs ==
    Operands
        \cup {Grouping(e) : e \in Operands}
        \cup {Unary(op, e) : op \in UnaryOperatorTokens, e \in Operands}
        \cup {Binary(l, op, r) : l \in Operands, op \in BinaryOperatorTokens, r \in Operands}

\* the sources of repeated calls of Scanner::parse
RescanSources ==
    SeqsUpTo({"a", "1", " ", NL, QUOTE}, MaxRescanLen)
        \cup { <<"1", " ", "+", " ", "1", ";">>,
               <<QUOTE, "a", NL, "b", QUOTE, " ", "+", NL, "1", ";">>,
               <<"v", "a", "r", " ", "i", " ", "=", " ", "1", ";", " ", "/", "/", " ", "c", NL,
                 "p", "r", "i", "n", "t", " ", "i", ";", NL>> }

\* no earlier call of Scanner::parse is remembered; calls counts the finished calls
NoCall == [called |-> FALSE, source |-> <<>>, tokens |-> <<>>, calls |-> 0]

(***************************************************************************)
(* The state machine: run (src/src/main.rs) and the tests' pipeline        *)
(* Scanner::parse -> Parser::parse -> accept(&Interpreter); Parser::parse  *)
(* is also entered directly with a token vector.                           *)
(***************************************************************************)
InitSource ==
    /\ entry = "source"
    /\ source \in Sources
    /\ tokens = <<>>
    /\ pc = "scan"

InitTokens ==
    /\ entry = "tokens"
    /\ source = <<>>
    /\ tokens \in TokenInputs
    /\ pc = "parse"

Init ==
    /\ InitSource \/ InitTokens
    /\ scanner = ScannerNew
    /\ parser = ParserNew
    /\ ast = NoExpr
    /\ result = NoResult
    /\ reports = <<>>
    /\ interp = InterpIdle
    /\ earlier = NoCall

\* one pass of the loop of Scanner::scan_tokens; the last one pushes EOF and
\* Scanner::parse returns the tokens
ScanStep ==
    /\ pc = "scan"
    /\ scanner' = scan_token(source, scanner)
    /\ reports' = scanner'.reports
    /\ pc' = CASE scanner'.status = "scanning" -> "scan"
               [] scanner'.status = "returned" -> "parse"
               [] scanner'.status = "panicked" -> "panicked"
               [] scanner'.status = "exited" -> "exited"
    /\ tokens' = IF scanner'.status = "returned" THEN scanner'.tokens ELSE tokens
    /\ UNCHANGED <<entry, source, parser, ast, result, interp, earlier>>

\* Parser::parse(tokens)
Parse ==
    /\ pc = "parse"
    /\ LET r == ParserParse(tokens)
       IN /\ parser' = r.p
          /\ reports' = reports \o r.p.reports
          /\ pc' = CASE r.p.status = "parsing" -> "eval"
                     [] r.p.status = "panicked" -> "panicked"
                     [] r.p.status = "exited" -> "exited"
          /\ ast' = IF r.p.status = "parsing" THEN r.expr ELSE ast
    /\ UNCHANGED <<entry, source, scanner, tokens, result, interp, earlier>>

\* expr.accept(&Interpreter)
Evaluate ==
    /\ pc = "eval"
    /\ result' = evaluate(ast)
    /\ pc' = IF result'.panic THEN "panicked" ELSE "done"
    /\ UNCHANGED <<entry, source, scanner, tokens, parser, ast, reports, interp, earlier>>

Next == ScanStep \/ Parse \/ Evaluate

Spec == Init /\ [][Next]_vars

(***************************************************************************)
(* Parser::parse alone, on the token vectors of the model and on the       *)
(* tokens Scanner::parse returns for the tests' sources.                   *)
(***************************************************************************)
ScannedExampleTokens ==
    {ScannerParse(src).tokens : src \in {s \in ExampleSources : ScannerParse(s).status = "returned"}}

InitParse ==
    /\ entry = "tokens"
    /\ source = <<>>
    /\ tokens \in TokenInputs \cup ScannedExampleTokens
    /\ scanner = ScannerNew
    /\ parser = ParserNew
    /\ ast = NoExpr
    /\ result = NoResult
    /\ reports = <<>>
    /\ interp = InterpIdle
    /\ earlier = NoCall
    /\ pc = "parse"

ParseSpec == InitParse /\ [][Parse]_vars

(***************************************************************************)
(* The Interpreter alone: expr.accept(&Interpreter) on an Expression, one  *)
(* call or return of the visitor at a time.                                *)
(***************************************************************************)
InitExpr ==
    /\ entry = "expr"
    /\ source = <<>>
    /\ tokens = <<>>
    /\ scanner = ScannerNew
    /\ parser = ParserNew
    /\ ast \in Exprs
    /\ result = NoResult
    /\ reports = <<>>
    /\ interp = InterpNew(ast)
    /\ earlier = NoCall
    /\ pc = "eval"

\* a visit_* method is entered
Visit ==
    /\ pc = "eval"
    /\ entry = "expr"
    /\ interp.stack # <<>>
    /\ ~interp.returning
    /\ interp' = accept(interp)
    /\ UNCHANGED <<entry, source, scanner, tokens, parser, ast, result, reports, earlier, pc>>

\* self.evaluate(child) returns into a visit_* method
Return ==
    /\ pc = "eval"
    /\ entry = "expr"
    /\ interp.stack # <<>>
    /\ interp.returning
    /\ interp' = resume(interp)
    /\ UNCHANGED <<entry, source, scanner, tokens, parser, ast, result, reports, earlier, pc>>

\* expr.accept(&Interpreter) returns to its caller
Finish ==
    /\ pc = "eval"
    /\ entry = "expr"
    /\ interp.stack = <<>>
    /\ interp.returning
    /\ result' = interp.returned
    /\ pc' = IF result'.panic THEN "panicked" ELSE "done"
    /\ UNCHANGED <<entry, source, scanner, tokens, parser, ast, reports, interp, earlier>>

EvalNext == Visit \/ Return \/ Finish

EvalSpec == InitExpr /\ [][EvalNext]_vars

(***************************************************************************)
(* Scanner::parse called several times in one process (once per REPL line, *)
(* once per test assertion).  earlier keeps one of the finished calls.     *)
(***************************************************************************)
InitRescan ==
    /\ entry = "rescan"
    /\ source \in RescanSources
    /\ tokens = <<>>
    /\ scanner = ScannerNew
    /\ parser = ParserNew
    /\ ast = NoExpr
    /\ result = NoResult
    /\ reports = <<>>
    /\ interp = InterpIdle
    /\ earlier = NoCall
    /\ pc = "scan"

\* what a later call would start from were the Scanner kept between calls
\* instead of built anew: the tokens and the line of the call before
ScannerReused == [scanner EXCEPT !.start = 0, !.current = 0, !.status = "scanning"]

\* let mut scanner = Scanner::new(source_code) of the next call
ScannerOfNextCall == ScannerNew

\* the next call of Scanner::parse, after one that returned
ScanAgain ==
    /\ pc = "parse"
    /\ entry = "rescan"
    /\ earlier.calls + 1 < MaxScans
    /\ source' \in RescanSources
    /\ scanner' = ScannerOfNextCall
    /\ tokens' = <<>>
    /\ \/ earlier' = [earlier EXCEPT !.calls = @ + 1]
       \/ earlier' = [called |-> TRUE, source |-> source, tokens |-> tokens,
                      calls |-> earlier.calls + 1]
    /\ pc' = "scan"
    /\ UNCHANGED <<entry, parser, ast, result, reports, interp>>

RescanNext == ScanStep \/ ScanAgain

RescanSpec == InitRescan /\ [][RescanNext]_vars

(***************************************************************************)
(* Helpers of the properties                                               *)
(***************************************************************************)
Last(seq) == seq[Len(seq)]

\* the run has ended: a value or runtime error, a panic, or process::exit
Terminal == pc \in {"done", "panicked", "exited"}

\* Parser::parse has been called in this run
ParseCalled == parser # ParserNew

\* the outcome of the whole pipeline on src, as a function of src
Pipeline(src) ==
    LET s == ScannerParse(src)
        r == ParserParse(s.tokens)
    IN IF s.status # "returned" THEN [pc |-> s.status, result |-> NoResult]
       ELSE IF r.p.status # "parsing" THEN [pc |-> r.p.status, result |-> NoResult]
       ELSE [pc |-> "done", result |-> evaluate(r.expr)]

(***************************************************************************)
(* C1.  For every source string (the empty one, one whose last character   *)
(* is a digit, ones with errors) Scanner::parse returns, and the token     *)
(* sequence it returns ends with the EOF token and has no EOF before it.   *)
(***************************************************************************)
C1_ScanReturnsTokensEndingInEOF ==
    entry = "source" =>
        /\ scanner.status \notin {"panicked", "exited"}
        /\ scanner.status = "returned" =>
              /\ scanner.tokens # <<>>
              /\ Last(scanner.tokens).token_type = "EOF"
              /\ \A i \in 1..(Len(scanner.tokens) - 1) :
                    scanner.tokens[i].token_type # "EOF"

(***************************************************************************)
(* C2.  '!', '=', '<', '>' followed by '=' give the two-character token    *)
(* (BangEqual, EqualEqual, LessEqual, GreaterEqual) with a two-character   *)
(* lexeme, and otherwise the one-character token (Bang, Equal, Less,       *)
(* Greater) with a one-character lexeme.  Stated of the first token of a   *)
(* source that starts with one of the four characters.                     *)
(***************************************************************************)
OneCharKind(c) ==
    CASE c = "!" -> "Bang" [] c = "=" -> "Equal" [] c = "<" -> "Less" [] c = ">" -> "Greater"

TwoCharKind(c) ==
    CASE c = "!" -> "BangEqual" [] c = "=" -> "EqualEqual"
      [] c = "<" -> "LessEqual" [] c = ">" -> "GreaterEqual"

C2_TwoCharacterOperators ==
    (/\ entry = "source"
     /\ source # <<>>
     /\ source[1] \in {"!", "=", "<", ">"}
     /\ scanner.tokens # <<>>)
    => IF NthChar(source, 1) = "="
       THEN scanner.tokens[1] =
                Token(TwoCharKind(source[1]), <<source[1], "=">>, LiteralNull, 1)
       ELSE scanner.tokens[1] =
                Token(OneCharKind(source[1]), <<source[1]>>, LiteralNull, 1)

(***************************************************************************)
(* C3.  "!0", "!nil" and "!1" run through scan, parse and evaluate to      *)
(* Bool(true), Bool(true) and Bool(false); a source `!x` with x a primary  *)
(* literal evaluates to the negation of the truthiness of x.               *)
(***************************************************************************)
\* the sources `!x` of the model and the truthiness of x
NotSources ==
    { <<<<"!", "0">>, FALSE>>, <<<<"!", "n", "i", "l">>, FALSE>>, <<<<"!", "1">>, TRUE>>,
      <<<<"!", "t", "r", "u", "e">>, TRUE>>, <<<<"!", "f", "a", "l", "s", "e">>, FALSE>>,
      <<<<"!", QUOTE, QUOTE>>, TRUE>>, <<<<"!", QUOTE, "a", QUOTE>>, TRUE>> }

C3_BangNegatesTruthiness ==
    \A ns \in NotSources :
        (entry = "source" /\ source = ns[1] /\ Terminal)
        => pc = "done" /\ result = RtOk(ValueBool(~ns[2]))

(***************************************************************************)
(* C4.  A source `L != R` evaluates to the negation of what `L == R`       *)
(* evaluates to; `123 + "123" != "123123"` gives Bool(false) and           *)
(* `123 + "123" == "123123"` gives Bool(true).                             *)
(***************************************************************************)
\* pairs <<L != R, L == R>> among the sources of the model
NeqEqSources ==
    { <<<<"1", "2", "3", " ", "+", " ", QUOTE, "1", "2", "3", QUOTE, " ", "!", "=", " ",
          QUOTE, "1", "2", "3", "1", "2", "3", QUOTE, ";">>,
        <<"1", "2", "3", " ", "+", " ", QUOTE, "1", "2", "3", QUOTE, " ", "=", "=", " ",
          QUOTE, "1", "2", "3", "1", "2", "3", QUOTE, ";">>>>,
      <<<<"1", "!", "=", "1", ";">>, <<"1", "=", "=", "1", ";">>>>,
      <<<<"1", "!", "=", "2", ";">>, <<"1", "=", "=", "2", ";">>>>,
      <<<<"n", "i", "l", "!", "=", "n", "i", "l">>, <<"n", "i", "l", "=", "=", "n", "i", "l">>>> }

C4_BangEqualNegatesEqualEqual ==
    /\ \A pair \in NeqEqSources :
          (entry = "source" /\ source = pair[1] /\ Terminal)
          => /\ pc = "done"
             /\ result.ok
             /\ Pipeline(pair[2]).result.ok
             /\ result.value = ValueBool(~Pipeline(pair[2]).result.value.b)
    /\ (/\ entry = "source"
        /\ Terminal
        /\ source = <<"1", "2", "3", " ", "+", " ", QUOTE, "1", "2", "3", QUOTE, " ", "=", "=", " ",
                      QUOTE, "1", "2", "3", "1", "2", "3", QUOTE, ";">>)
       => result = RtOk(ValueBool(TRUE))

(***************************************************************************)
(* C5.  When parsing fails (a missing `)`, or a token that cannot start a  *)
(* primary), Parser::parse returns Literal(Nil) to its caller, exactly one *)
(* error having been reported, at the offending token; the tokens of       *)
(* "(1 + 2" report "Expect ')' after expression." at the end-of-input      *)
(* token.                                                                  *)
(***************************************************************************)
AtEnd == <<" ", "a", "t", " ", "e", "n", "d">>

IsUnclosedGroup(toks) ==
    /\ Len(toks) = 5
    /\ [i \in 1..5 |-> toks[i].token_type] = <<"LeftParen", "Number", "Plus", "Number", "EOF">>

C5_ParseFailureReturnsNil ==
    (ParseCalled /\ ~expression(tokens, ParserNew).ok)
    => /\ pc \in {"eval", "done"}
       /\ ast = Literal(ExprNil)
       /\ Len(parser.reports) = 1
       /\ IsUnclosedGroup(tokens) =>
             /\ parser.reports[1].message = "Expect ')' after expression."
             /\ parser.reports[1].wheres = AtEnd

(***************************************************************************)
(* C6.  A scan error (an unrecognized character, an unterminated string)   *)
(* is reported and does not stop the scan: the tokens after an             *)
(* unrecognized character are still emitted in order (the tokens are those *)
(* of the source with each '@' replaced by a blank), the returned sequence *)
(* ends with EOF, and an unterminated string emits no String token.        *)
(***************************************************************************)
Blanked(src) == [i \in 1..Len(src) |-> IF src[i] = "@" THEN " " ELSE src[i]]

\* the scan of src meets an unterminated string: an odd number of quotes
\* (in the sources considered, quotes occur outside comments only)
OddQuotes(src) == Cardinality({i \in 1..Len(src) : src[i] = QUOTE}) % 2 = 1

C6_ScanErrorsDoNotStopTheScan ==
    entry = "source" =>
        /\ scanner.status # "exited"
        /\ scanner.status = "returned" =>
              /\ Last(scanner.tokens).token_type = "EOF"
              /\ scanner.tokens = ScannerParse(Blanked(source)).tokens
              /\ (OddQuotes(source) /\ source[1] = QUOTE) =>
                    \A i \in 1..Len(scanner.tokens) : scanner.tokens[i].token_type # "String"

(***************************************************************************)
(* C7.  Every token the scanner emits has as its lexeme exactly the text   *)
(* of the source between the scanner's cursors start and current (which    *)
(* count characters), also when the source holds multi-byte characters;    *)
(* taking the slice never fails.                                           *)
(***************************************************************************)
TokenAdded == Len(scanner'.tokens) = Len(scanner.tokens) + 1 /\ scanner'.status = "scanning"

\* the slice of add_token, or the one of string(), is not a slice of the source
SliceFailed(s) ==
    \/ ~Slice(source, s.start, s.current).ok
    \/ NthChar(source, s.start) = QUOTE /\ ~Slice(source, s.start + 1, s.current - 1).ok

C7_LexemeIsTheSourceText ==
    [][ScanStep =>
          /\ TokenAdded =>
                Last(scanner'.tokens).lexeme =
                    SubSeq(source, scanner'.start + 1, scanner'.current)
          /\ ~(scanner'.status = "panicked" /\ SliceFailed(scanner'))]_vars

(***************************************************************************)
(* C8.  Every token carries the 1-based number of the line on which it     *)
(* begins: 1 plus the number of newline characters before its first        *)
(* character, also for a String token that spans several lines.            *)
(***************************************************************************)
NewlinesBefore(src, k) == Cardinality({i \in 1..k : src[i] = NL})

C8_TokenLineIsLineOfItsStart ==
    [][ScanStep =>
          (TokenAdded =>
              Last(scanner'.tokens).line = 1 + NewlinesBefore(source, scanner'.start))]_vars

(***************************************************************************)
(* C9.  Each binary level (equality, comparison, term, factor) is          *)
(* left-associative: the tokens a op1 b op2 c ..., with the operators all  *)
(* of one level and a, b, c literals, parse to                             *)
(* Binary(Binary(a, op1, b), op2, c) ..., for every length of chain.       *)
(***************************************************************************)
\* the grammar level of a binary operator token: 1 equality .. 4 factor
Level(token_type) ==
    CASE token_type \in {"BangEqual", "EqualEqual"} -> 1
      [] token_type \in {"Greater", "GreaterEqual", "Less", "LessEqual"} -> 2
      [] token_type \in {"Minus", "Plus"} -> 3
      [] token_type \in {"Slash", "Star"} -> 4
      [] OTHER -> 0

IsOperand(tok) ==
    \/ tok.token_type = "Number" /\ tok.literal.kind = "Number"
    \/ tok.token_type = "Nil"

OperandExpr(tok) ==
    IF tok.token_type = "Number" THEN Literal(ExprNumber(tok.literal.num))
    ELSE Literal(ExprNil)

\* operand (operator operand)+ EOF, the operators all of one level
IsChain(toks) ==
    /\ Len(toks) >= 4
    /\ Len(toks) % 2 = 0
    /\ toks[Len(toks)].token_type = "EOF"
    /\ \A i \in 1..(Len(toks) - 1) :
          IF i % 2 = 1 THEN IsOperand(toks[i])
          ELSE Level(toks[i].token_type) > 0
               /\ Level(toks[i].token_type) = Level(toks[2].token_type)

RECURSIVE LeftFold(_, _)
\* the left-nested tree of the first k operators of a chain
LeftFold(toks, k) ==
    IF k = 0 THEN OperandExpr(toks[1])
    ELSE Binary(LeftFold(toks, k - 1), toks[2 * k], OperandExpr(toks[2 * k + 1]))

C9_BinaryLevelsAreLeftAssociative ==
    (ParseCalled /\ IsChain(tokens))
    => /\ pc \in {"eval", "done"}
       /\ ast = LeftFold(tokens, (Len(tokens) - 2) \div 2)

\* a chain of three operators of one level, not all the same, has been parsed
C9_Witness ==
    /\ pc = "done"
    /\ IsChain(tokens)
    /\ Len(tokens) = 8
    /\ tokens[2].token_type # tokens[4].token_type
    /\ ast.node = "Binary"
    /\ ast.left.node = "Binary"
    /\ ast.left.left.node = "Binary"

(***************************************************************************)
(* C10.  Precedence is equality < comparison < term < factor < unary <     *)
(* primary: in a parsed AST the operand of a Binary node is never a        *)
(* Binary node of a looser level, the operand of a Unary node is never a   *)
(* Binary node, and each parenthesized sub-expression is a Grouping node   *)
(* (as many Grouping nodes as `(` tokens consumed).  `3.14 * 2 + 2`        *)
(* prints as the sum of a product and 2, `3.14 * (2 + 2)` as the product   *)
(* of 3.14 and a group (the two strings are in the formula).               *)
(***************************************************************************)
RECURSIVE WellNested(_)
WellNested(e) ==
    CASE e.node = "Binary" ->
            /\ e.left.node = "Binary" =>
                  Level(e.left.operator.token_type) >= Level(e.operator.token_type)
            /\ e.right.node = "Binary" =>
                  Level(e.right.operator.token_type) >= Level(e.operator.token_type)
            /\ Level(e.operator.token_type) > 0
            /\ WellNested(e.left)
            /\ WellNested(e.right)
      [] e.node = "Unary" -> e.right.node # "Binary" /\ WellNested(e.right)
      [] e.node = "Grouping" -> WellNested(e.expr)
      [] OTHER -> TRUE

RECURSIVE GroupingCount(_)
GroupingCount(e) ==
    CASE e.node = "Binary" -> GroupingCount(e.left) + GroupingCount(e.right)
      [] e.node = "Unary" -> GroupingCount(e.right)
      [] e.node = "Grouping" -> 1 + GroupingCount(e.expr)
      [] OTHER -> 0

TypesAndLexemes(toks) == [i \in 1..Len(toks) |-> <<toks[i].token_type, toks[i].lexeme>>]

\* the tokens are those of `3.14 * 2 + 2`, then possibly `;`, then EOF
IsProductPlus(toks) ==
    /\ Len(toks) >= 5
    /\ SubSeq(TypesAndLexemes(toks), 1, 5) =
          << <<"Number", <<"3", ".", "1", "4">>>>, <<"Star", <<"*">>>>, <<"Number", <<"2">>>>,
             <<"Plus", <<"+">>>>, <<"Number", <<"2">>>> >>
    /\ toks[6].token_type \in {"Semicolon", "EOF"}

\* the tokens are those of `3.14 * (2 + 2)`, then possibly `;`, then EOF
IsProductOfGroup(toks) ==
    /\ Len(toks) >= 7
    /\ SubSeq(TypesAndLexemes(toks), 1, 7) =
          << <<"Number", <<"3", ".", "1", "4">>>>, <<"Star", <<"*">>>>, <<"LeftParen", <<"(">>>>,
             <<"Number", <<"2">>>>, <<"Plus", <<"+">>>>, <<"Number", <<"2">>>>,
             <<"RightParen", <<")">>>> >>
    /\ toks[8].token_type \in {"Semicolon", "EOF"}

C10_PrecedenceAndGrouping ==
    (ParseCalled /\ pc \in {"eval", "done"})
    => /\ WellNested(ast)
       /\ GroupingCount(ast) =
             Cardinality({i \in 1..parser.current : tokens[i].token_type = "LeftParen"})
       /\ IsProductPlus(tokens) =>
             AstPrinter(ast) = <<"(", "+", " ", "(", "*", " ", "3", ".", "1", "4", " ", "2", ")",
                                 " ", "2", ")">>
       /\ IsProductOfGroup(tokens) =>
             AstPrinter(ast) = <<"(", "*", " ", "3", ".", "1", "4", " ", "(", "g", "r", "o", "u", "p",
                                 " ", "(", "+", " ", "2", " ", "2", ")", ")", ")">>

\* `3.14 * (2 + 2)` has been scanned and parsed: a factor over a grouped term
C10_Witness ==
    /\ entry = "source"
    /\ pc = "done"
    /\ IsProductOfGroup(tokens)
    /\ ast.node = "Binary"
    /\ ast.operator.token_type = "Star"
    /\ ast.right.node = "Grouping"
    /\ ast.right.expr.node = "Binary"

(***************************************************************************)
(* Helpers of the properties of the Interpreter.  They state what a        *)
(* result should be without the operators of the model: a sum by           *)
(* cross-multiplication, a decimal text by reading it back.                *)
(***************************************************************************)
\* the Value methods called so far in this evaluation, as log entries
Applications == {interp.log[k] : k \in {j \in 1..Len(interp.log) : interp.log[j].ev = "apply"}}

BinaryApplications(ops) == {e \in Applications : Len(e.args) = 2 /\ e.op \in ops}

UnaryApplications(op) == {e \in Applications : Len(e.args) = 1 /\ e.op = op}

\* res is Err(RuntimeError { .. }): neither a value nor a panic
IsRuntimeError(res) == ~res.ok /\ ~res.panic /\ res.msg \notin {"", "not evaluated"}

IsValueOfKind(res, kind) == res.ok /\ ~res.panic /\ res.value.kind = kind

Finite(x) == x.d # 0

\* s is the IEEE sum of x and y (exact where finite)
IsSumOf(s, x, y) ==
    IF Finite(x) /\ Finite(y)
    THEN Finite(s) /\ s.n * x.d * y.d = (x.n * y.d + y.n * x.d) * s.d
    ELSE IF IsNaN(x) \/ IsNaN(y) \/ (IsInf(x) /\ IsInf(y) /\ x.n # y.n) THEN IsNaN(s)
    ELSE s = (IF IsInf(x) THEN x ELSE y)

\* text is the decimal text of x: an optional '-', then digits (with a
\* fraction part where x has one) that read back as |x|; the names of the
\* non-finite values
IsDecimalTextOf(text, x) ==
    IF Finite(x)
    THEN LET body == IF x.n < 0 THEN SubSeq(text, 2, Len(text)) ELSE text
         IN /\ x.n < 0 => (text # <<>> /\ text[1] = "-")
            /\ ParseF64(body).ok
            /\ ParseF64(body).num = [n |-> Abs(x.n), d |-> x.d]
            /\ body[1] # "." /\ body[Len(body)] # "."
            /\ (x.d = 1) = (\A i \in 1..Len(body) : body[i] # ".")
    ELSE text = (IF IsNaN(x) THEN <<"N", "a", "N">>
                 ELSE IF x.n > 0 THEN <<"i", "n", "f">> ELSE <<"-", "i", "n", "f">>)

\* res is Ok(Str(left ++ right)) where a side is given as text or as a number
IsConcatenation(res, text) == IsValueOfKind(res, "Str") /\ res.value.str = text

(***************************************************************************)
(* C11.  Binary `+` on evaluated operands: Str + Str is the concatenation, *)
(* Number + Number the sum, Str + Number and Number + Str the              *)
(* concatenation in which the number is replaced by its decimal text, the  *)
(* operands in their order; every other pairing (an operand Bool or Nil)   *)
(* is a RuntimeError.                                                      *)
(***************************************************************************)
C11_PlusOnEvaluatedOperands ==
    \A e \in BinaryApplications({"Plus"}) :
        LET l == e.args[1]
            r == e.args[2]
        IN CASE l.kind = "Str" /\ r.kind = "Str" -> IsConcatenation(e.res, l.str \o r.str)
             [] l.kind = "Number" /\ r.kind = "Number" ->
                    IsValueOfKind(e.res, "Number") /\ IsSumOf(e.res.value.num, l.num, r.num)
             [] l.kind = "Str" /\ r.kind = "Number" ->
                    /\ IsValueOfKind(e.res, "Str")
                    /\ Len(e.res.value.str) >= Len(l.str)
                    /\ SubSeq(e.res.value.str, 1, Len(l.str)) = l.str
                    /\ IsDecimalTextOf(SubSeq(e.res.value.str, Len(l.str) + 1,
                                              Len(e.res.value.str)), r.num)
             [] l.kind = "Number" /\ r.kind = "Str" ->
                    /\ IsValueOfKind(e.res, "Str")
                    /\ Len(e.res.value.str) >= Len(r.str)
                    /\ SubSeq(e.res.value.str, Len(e.res.value.str) - Len(r.str) + 1,
                              Len(e.res.value.str)) = r.str
                    /\ IsDecimalTextOf(SubSeq(e.res.value.str, 1,
                                              Len(e.res.value.str) - Len(r.str)), l.num)
             [] OTHER -> IsRuntimeError(e.res)

\* 0.5 + "a" has been evaluated, to the text 0.5a
C11_Witness ==
    /\ entry = "expr"
    /\ pc = "done"
    /\ \E e \in BinaryApplications({"Plus"}) :
          /\ e.path = <<>>
          /\ e.args = <<ValueNumber(Frac(1, 2)), ValueStr(<<"a">>)>>
          /\ result = RtOk(ValueStr(<<"0", ".", "5", "a">>))

\* ordinary equality of two values of one kind (IEEE for numbers: NaN equals
\* nothing, a value equals the values with the same quotient); values of
\* different kinds are never the same
SameValue(v, w) ==
    /\ v.kind = w.kind
    /\ CASE v.kind = "Number" ->
                /\ ~IsNaN(v.num)
                /\ ~IsNaN(w.num)
                /\ IF Finite(v.num) /\ Finite(w.num)
                   THEN v.num.n * w.num.d = w.num.n * v.num.d
                   ELSE v.num.d = w.num.d /\ v.num.n = w.num.n
         [] v.kind = "Str" -> v.str = w.str
         [] v.kind = "Bool" -> v.b = w.b
         [] v.kind = "Nil" -> TRUE

(***************************************************************************)
(* C12.  `==` and `!=` never yield a RuntimeError, whatever the two        *)
(* operand values: on a pair of one kind they are ordinary equality and    *)
(* inequality (Nil == Nil is true), on a pair of different kinds `==` is   *)
(* Bool(false) and `!=` is Bool(true), and on every pair the result of     *)
(* `!=` is the negation of the result of `==`.                             *)
(***************************************************************************)
C12_EqualityNeverErrs ==
    \A e \in BinaryApplications({"EqualEqual", "BangEqual"}) :
        LET l == e.args[1]
            r == e.args[2]
        IN /\ IsValueOfKind(e.res, "Bool")
           /\ e.op = "EqualEqual" => e.res.value.b = SameValue(l, r)
           /\ e.op = "BangEqual" => e.res.value.b = ~SameValue(l, r)
           /\ l.kind # r.kind => e.res.value.b = (e.op = "BangEqual")
           /\ IsValueOfKind(eq(l, r), "Bool")
           /\ IsValueOfKind(neq(l, r), "Bool")
           /\ neq(l, r).value.b = ~eq(l, r).value.b

\* 1 != "1", a pair of different kinds, has been evaluated to true
C12_Witness ==
    /\ entry = "expr"
    /\ pc = "done"
    /\ \E e \in BinaryApplications({"BangEqual"}) :
          /\ e.path = <<>>
          /\ e.args = <<ValueNumber(Frac(1, 1)), ValueStr(<<"1">>)>>
          /\ result = RtOk(ValueBool(TRUE))

ArithmeticOps == {"Minus", "Star", "Slash"}

ComparisonOps == {"Greater", "GreaterEqual", "Less", "LessEqual"}

(***************************************************************************)
(* C13.  The binary operators - * / > >= < <= yield a RuntimeError         *)
(* whenever an evaluated operand is not a Number (a Str, numeric-looking   *)
(* or not, a Bool or Nil: nothing is coerced), and when both operands are  *)
(* Numbers they yield a value, a Number for - * / and a Bool for the       *)
(* comparisons, never a RuntimeError, a zero divisor included.             *)
(***************************************************************************)
C13_NumbersOnlyOperators ==
    \A e \in BinaryApplications(ArithmeticOps \cup ComparisonOps) :
        IF e.args[1].kind = "Number" /\ e.args[2].kind = "Number"
        THEN IsValueOfKind(e.res, IF e.op \in ArithmeticOps THEN "Number" ELSE "Bool")
        ELSE IsRuntimeError(e.res)

\* 1 / 0 has been evaluated, to a Number that is an infinity
C13_Witness ==
    /\ entry = "expr"
    /\ pc = "done"
    /\ \E e \in BinaryApplications({"Slash"}) :
          /\ e.path = <<>>
          /\ e.args = <<ValueNumber(Frac(1, 1)), ValueNumber(Frac(0, 1))>>
          /\ IsValueOfKind(result, "Number")
          /\ IsInf(result.value.num)

\* y is the IEEE negation of x
IsNegationOf(y, x) ==
    IF Finite(x) THEN Finite(y) /\ y.n * x.d + x.n * y.d = 0
    ELSE y.d = 0 /\ y.n + x.n = 0

(***************************************************************************)
(* C14.  Unary `-` on an operand that evaluates to Number(n) yields        *)
(* Number(-n); on an operand that evaluates to anything else (a Str, also  *)
(* one that reads as a number, a Bool, Nil) it yields the RuntimeError     *)
(* "Cannot apply negative operand on non-numeric values".  The coercion    *)
(* helper try_into_number is applied by no operator: where it would give   *)
(* a number for an operand that is not one, unary `-` and the binary       *)
(* operators - * / > >= < <= still yield the RuntimeError.                 *)
(***************************************************************************)
C14_UnaryMinus ==
    /\ \A e \in UnaryApplications("Minus") :
          IF e.args[1].kind = "Number"
          THEN /\ IsValueOfKind(e.res, "Number")
               /\ IsNegationOf(e.res.value.num, e.args[1].num)
          ELSE /\ ~e.res.ok
               /\ ~e.res.panic
               /\ e.res.msg = "Cannot apply negative operand on non-numeric values"
    /\ \A e \in UnaryApplications("Minus") \cup BinaryApplications(ArithmeticOps \cup ComparisonOps) :
          (/\ \E k \in 1..Len(e.args) : e.args[k].kind # "Number"
           /\ \A k \in 1..Len(e.args) : try_into_number(e.args[k]).ok)
          => IsRuntimeError(e.res)

\* -"1" has been evaluated: the text reads as a number, the result is the error
C14_Witness ==
    /\ entry = "expr"
    /\ pc = "done"
    /\ \E e \in UnaryApplications("Minus") :
          /\ e.path = <<>>
          /\ e.args = <<ValueStr(<<"1">>)>>
          /\ try_into_number(e.args[1]).ok
          /\ ~result.ok

\* false exactly for Bool(false), Nil and the number zero
Truthy(v) ==
    ~ \/ (v.kind = "Bool" /\ ~v.b)
      \/ v.kind = "Nil"
      \/ (v.kind = "Number" /\ Finite(v.num) /\ v.num.n = 0)

(***************************************************************************)
(* C15.  Unary `!` on an operand that evaluates to v yields                *)
(* Bool(not truthy(v)) and never a RuntimeError of its own; truthy(v) is   *)
(* false exactly for Bool(false), Nil and Number 0 and true for every      *)
(* other value (the empty string, Bool(true), NaN, ...).                   *)
(***************************************************************************)
C15_BangIsNotTruthy ==
    \A e \in UnaryApplications("Bang") :
        /\ IsValueOfKind(e.res, "Bool")
        /\ e.res.value.b = ~Truthy(e.args[1])

\* !"" has been evaluated, to false
C15_Witness ==
    /\ entry = "expr"
    /\ pc = "done"
    /\ \E e \in UnaryApplications("Bang") :
          /\ e.path = <<>>
          /\ e.args = <<ValueStr(<<>>)>>
          /\ result = RtOk(ValueBool(FALSE))

RECURSIVE NodeAt(_, _)
\* the node of expr that the path (a sequence of "left", "right", "expr") leads to
NodeAt(expr, path) ==
    IF path = <<>> THEN expr
    ELSE NodeAt(CASE path[1] = "left" -> expr.left
                  [] path[1] = "right" -> expr.right
                  [] path[1] = "expr" -> expr.expr,
                SubSeq(path, 2, Len(path)))

IsPrefix(p, q) == Len(p) <= Len(q) /\ SubSeq(q, 1, Len(p)) = p

LogEntries == 1..Len(interp.log)

\* the log entries at which a RuntimeError is raised: a Value method returns Err
Raised == {k \in LogEntries : interp.log[k].ev = "apply" /\ ~interp.log[k].res.ok}

\* the paths of the Binary nodes whose visit has begun
BinaryVisited ==
    {interp.log[k].path : k \in {j \in LogEntries : /\ interp.log[j].ev = "enter"
                                                     /\ NodeAt(ast, interp.log[j].path).node = "Binary"}}

(***************************************************************************)
(* C16.  In the evaluation of a Binary node the left operand is evaluated  *)
(* completely before the evaluation of the right operand begins; when the  *)
(* left operand yields a RuntimeError the right operand is never           *)
(* evaluated and the operator never applied; and the first RuntimeError    *)
(* raised in a sub-expression is, unchanged, what every enclosing visit    *)
(* returns and the result of the whole evaluation, with nothing evaluated  *)
(* after it.                                                               *)
(***************************************************************************)
C16_LeftBeforeRightAndFirstError ==
    /\ \A p \in BinaryVisited :
          \A k \in LogEntries :
              LET e == interp.log[k]
              IN /\ (e.ev = "enter" /\ e.path = p \o <<"right">>)
                    => /\ \E j \in 1..(k - 1) : /\ interp.log[j].ev = "leave"
                                                /\ interp.log[j].path = p \o <<"left">>
                                                /\ interp.log[j].res.ok
                       /\ \A m \in k..Len(interp.log) :
                             ~IsPrefix(p \o <<"left">>, interp.log[m].path)
                 /\ (e.ev = "leave" /\ e.path = p \o <<"left">> /\ ~e.res.ok)
                    => \A m \in LogEntries :
                          /\ ~IsPrefix(p \o <<"right">>, interp.log[m].path)
                          /\ ~(interp.log[m].ev = "apply" /\ interp.log[m].path = p)
    /\ Raised # {} =>
          LET first == CHOOSE k \in Raised : \A j \in Raised : k <= j
          IN /\ \A m \in (first + 1)..Len(interp.log) :
                   /\ interp.log[m].ev = "leave"
                   /\ interp.log[m].res = interp.log[first].res
             /\ pc # "eval" => result = interp.log[first].res
    /\ (Raised = {} /\ pc # "eval") => result.ok

\* (-"a") + (nil + 1) has been evaluated: the result is the error of the left
\* operand and the right operand, which would raise another, was not entered
C16_Witness ==
    /\ entry = "expr"
    /\ pc = "done"
    /\ ast.node = "Binary"
    /\ ast.left.node = "Unary"
    /\ ast.right.node = "Binary"
    /\ ~evaluate(ast.left).ok
    /\ ~evaluate(ast.right).ok
    /\ evaluate(ast.right) # evaluate(ast.left)
    /\ result = evaluate(ast.left)
    /\ \A k \in LogEntries : interp.log[k].path # <<"right">>

BeforeEOF(toks) ==
    LET eofs == {i \in 1..Len(toks) : toks[i].token_type = "EOF"}
    IN IF eofs = {} THEN toks
       ELSE SubSeq(toks, 1, (CHOOSE i \in eofs : \A j \in eofs : i <= j) - 1)

\* ts, followed by EOF, is an expression and nothing more: the parser accepts
\* it and consumes all of it
IsWholeExpression(ts) ==
    LET r == ParserParse(ts \o <<EOFTok>>)
    IN r.p.status = "parsing" /\ r.p.current = Len(ts)

\* the length of the longest prefix of toks that is an expression, 0 if none is
LongestExpressionPrefix(toks) ==
    LET whole == {k \in 1..Len(BeforeEOF(toks)) : IsWholeExpression(SubSeq(toks, 1, k))}
    IN IF whole = {} THEN 0 ELSE CHOOSE k \in whole : \A j \in whole : j <= k

BinaryOperatorKinds == {op.token_type : op \in BinaryOperatorTokens}

\* the tokens of `2 + 2;`
IsTwoPlusTwoSemicolon(toks) ==
    TypesAndLexemes(toks) = << <<"Number", <<"2">>>>, <<"Plus", <<"+">>>>, <<"Number", <<"2">>>>,
                               <<"Semicolon", <<";">>>>, <<"EOF", <<>>>> >>

(***************************************************************************)
(* C18 as stated.  For every token sequence Parser::parse returns the AST  *)
(* of the longest expression that is a prefix of the sequence and ignores  *)
(* the tokens after it, reporting nothing.                                 *)
(***************************************************************************)
C18_LongestPrefixAlwaysReturned ==
    LET longest == LongestExpressionPrefix(tokens)
    IN (ParseCalled /\ longest > 0)
       => /\ pc \in {"eval", "done"}
          /\ parser.reports = <<>>
          /\ ast = ParserParse(SubSeq(tokens, 1, longest) \o <<EOFTok>>).expr

(***************************************************************************)
(* C18, amended.  When Parser::parse returns without a report, it has      *)
(* consumed the longest prefix of the tokens that is an expression, the    *)
(* AST is the AST of that prefix and the tokens after it are ignored; it   *)
(* does so whenever the token after the longest expression prefix is not   *)
(* a binary operator (a `;`, a literal, a parenthesis, EOF), so that the   *)
(* tokens of `2 + 2;` parse to the AST of `2 + 2`.  When a binary operator *)
(* follows the prefix (`1 +`, `1 + ;`) the parser goes on and the outcome  *)
(* is a parse error, not the AST of the prefix.                            *)
(***************************************************************************)
C18_ParseStopsAfterOneExpression ==
    LET longest == LongestExpressionPrefix(tokens)
    IN ParseCalled =>
        /\ pc \in {"eval", "done"} =>
              /\ parser.reports = <<>>
              /\ parser.current >= 1
              /\ parser.current = longest
              /\ ast = ParserParse(SubSeq(tokens, 1, longest) \o <<EOFTok>>).expr
        /\ (longest > 0 /\ tokens[longest + 1].token_type \notin BinaryOperatorKinds)
           => pc \in {"eval", "done"}
        /\ IsTwoPlusTwoSemicolon(tokens) =>
              /\ pc \in {"eval", "done"}
              /\ ast = Binary(Literal(ExprNumber(Frac(2, 1))), Tok("Plus", <<"+">>),
                              Literal(ExprNumber(Frac(2, 1))))
              /\ ast = ParserParse(<<NumberTok(2), Tok("Plus", <<"+">>), NumberTok(2), EOFTok>>).expr

\* the tokens scanned from `2 + 2;` have been parsed: the `;` was left unconsumed
C18_Witness ==
    /\ entry = "tokens"
    /\ ParseCalled
    /\ pc \in {"eval", "done"}
    /\ IsTwoPlusTwoSemicolon(tokens)
    /\ parser.current = 3
    /\ tokens[parser.current + 1].token_type = "Semicolon"
    /\ ast.node = "Binary"

(***************************************************************************)
(* C19.  In every token sequence the scanner returns, the literal payload  *)
(* matches the token kind: a Number token carries a Number payload, a      *)
(* String token a String payload that is its lexeme without the two        *)
(* surrounding quotes, every other token no payload; hence the parser      *)
(* never reports "error parsing Number" or "error parsing Strings" on      *)
(* tokens that come from the scanner.                                      *)
(***************************************************************************)
C19_PayloadKindMatchesTokenKind ==
    (entry = "source" /\ scanner.status = "returned")
    => /\ \A k \in 1..Len(scanner.tokens) :
             LET t == scanner.tokens[k]
             IN CASE t.token_type = "Number" -> t.literal.kind = "Number"
                  [] t.token_type = "String" ->
                         /\ t.literal.kind = "String"
                         /\ t.lexeme = <<QUOTE>> \o t.literal.str \o <<QUOTE>>
                  [] OTHER -> t.literal = LiteralNull
       /\ \A k \in 1..Len(parser.reports) :
             parser.reports[k].message \notin {"error parsing Number", "error parsing Strings"}

(***************************************************************************)
(* C20.  For every token sequence that ends with an EOF token, in every    *)
(* state Parser::parse goes through the cursor is an index inside the      *)
(* token vector, it never decreases, it never moves past the position of   *)
(* the first EOF token, and previous() is called only with the cursor at   *)
(* least 1: no access to the tokens is out of bounds.  (An access out of   *)
(* bounds, the index current - 1 of previous() at cursor 0 included, is    *)
(* the status "panicked" of the parser.)                                   *)
(***************************************************************************)
C20_CursorStaysInBounds ==
    (ParseCalled /\ tokens # <<>> /\ Last(tokens).token_type = "EOF")
    => /\ parser.status # "panicked"
       /\ parser.visited[1] = 0
       /\ parser.current = Last(parser.visited)
       /\ \A i \in 1..Len(parser.visited) :
             /\ parser.visited[i] \in 0..(Len(tokens) - 1)
             /\ parser.visited[i] <= Len(BeforeEOF(tokens))
             /\ tokens[parser.visited[i] + 1].token_type = "EOF" => i = Len(parser.visited)
       /\ \A i \in 1..(Len(parser.visited) - 1) : parser.visited[i] <= parser.visited[i + 1]

\* a parse has moved the cursor up to an EOF that is not the last token, and
\* has returned with the cursor there
C20_Witness ==
    /\ ParseCalled
    /\ pc \in {"eval", "done"}
    /\ Len(tokens) = 5
    /\ parser.visited = <<0, 1>>
    /\ tokens[2].token_type = "EOF"
    /\ Last(tokens).token_type = "EOF"

RECURSIVE OperatorKindsValid(_)
\* every Binary node of expr has one of the ten binary operator kinds and
\* every Unary node has Bang or Minus
OperatorKindsValid(expr) ==
    CASE expr.node = "Binary" ->
            /\ expr.operator.token_type \in
                  {"Minus", "Plus", "Slash", "Star", "Greater", "GreaterEqual", "Less",
                   "LessEqual", "BangEqual", "EqualEqual"}
            /\ OperatorKindsValid(expr.left)
            /\ OperatorKindsValid(expr.right)
      [] expr.node = "Unary" ->
            /\ expr.operator.token_type \in {"Bang", "Minus"}
            /\ OperatorKindsValid(expr.right)
      [] expr.node = "Grouping" -> OperatorKindsValid(expr.expr)
      [] expr.node = "Literal" -> TRUE

(***************************************************************************)
(* C21.  Every AST that Parser::parse returns has, in each Binary node, an *)
(* operator token of kind Minus, Plus, Slash, Star, Greater, GreaterEqual, *)
(* Less, LessEqual, BangEqual or EqualEqual and, in each Unary node, one   *)
(* of kind Bang or Minus; hence the evaluation of an AST that comes from   *)
(* the parser never reaches the unreachable!() arms of visit_binary and    *)
(* visit_unary: it ends with a value or a RuntimeError, not a panic.       *)
(***************************************************************************)
C21_ParserOperatorsAreEvaluable ==
    (ParseCalled /\ parser.status = "parsing")
    => /\ OperatorKindsValid(ast)
       /\ ~evaluate(ast).panic
       /\ pc # "panicked"
       /\ pc = "done" => (~result.panic /\ result.msg # "unreachable")

\* the tokens of `-1 * 1` have been parsed to a Binary over a Unary and the
\* AST has been evaluated
C21_Witness ==
    /\ ParseCalled
    /\ pc = "done"
    /\ ast.node = "Binary"
    /\ ast.operator.token_type = "Star"
    /\ ast.left.node = "Unary"
    /\ ast.left.operator.token_type = "Minus"
    /\ result.ok

====
